---- MODULE Spec2Model ----
(***************************************************************************)
(* A model of the conform form-state engine.                               *)
(*                                                                         *)
(*   Part I   the form registry (packages/conform-dom/registry.ts):        *)
(*            add, subscribe, submit, update, reset.                       *)
(*   Part II  names and value trees (packages/conform-dom/formdata.ts),    *)
(*            the intents (packages/conform-dom/intent.ts) and the three   *)
(*            versions of parse the repository holds:                      *)
(*              "handler"  parse by resolve and getIntentHandler           *)
(*                         (unnamed/part_013 with intent.ts),              *)
(*              "zod"      parse handling the intent in place              *)
(*                         (packages/conform-zod/parse.ts),                *)
(*              "update"   parse handling the intent in place and          *)
(*                         reporting a form update (unnamed/part_014),     *)
(*            the createSubmission of unnamed/part_015, whose submission   *)
(*            is ready or not ready, with the submit of form.ts,           *)
(*            and the report of a submission (report, resetForm).          *)
(*   Part III the life of a form: add and remove as unnamed/part_007 has   *)
(*            them, the operations of the handle with the document         *)
(*            mounted or torn down, and the results of several             *)
(*            submissions applied in any order                             *)
(*            (packages/conform-react/hooks.ts).                           *)
(*   Part IV  the functions of names and of value trees applied to drawn   *)
(*            inputs: getPaths and formatPaths, and the two versions of    *)
(*            flatten (formdata.ts, packages/conform-dom/util.ts),         *)
(*            resolve and getIntent over the entries of a FormData, and    *)
(*            serialize and deserialize of the intents (intent.ts).        *)
(*                                                                         *)
(* JavaScript strings are sequences of tokens, so that startsWith, slice,  *)
(* indexOf and join are computed and not assumed.  JavaScript objects are  *)
(* functions whose DOMAIN is the set of own keys.                          *)
(***************************************************************************)
EXTENDS Integers, Sequences, FiniteSets, TLC

\* ------------------------------------------------------------------ bounds
MaxSubscriptions == 2

\* ------------------------------------------------------- generic helpers
EmptyMap == <<>>

Put(m, k, v) == [x \in (DOMAIN m) \cup {k} |-> IF x = k THEN v ELSE m[x]]

Range(s) == {s[i] : i \in DOMAIN s}

\* what is left of a sequence when the element at position i is taken out
Except(seq, i) == SubSeq(seq, 1, i - 1) \o SubSeq(seq, i + 1, Len(seq))

\* String.prototype.startsWith
startsWith(s, p) == Len(s) >= Len(p) /\ SubSeq(s, 1, Len(p)) = p

\* String.prototype.slice(n)
slice(s, n) == SubSeq(s, n + 1, Len(s))

\* Array.prototype.join
RECURSIVE join(_, _)
join(msgs, sep) ==
    IF msgs = <<>> THEN <<>>
    ELSE IF Len(msgs) = 1 THEN msgs[1]
    ELSE msgs[1] \o <<sep>> \o join(Tail(msgs), sep)

\* --------------------------------------------------------- names, values
NameA == <<"a">>
NameB == <<"b">>
NameTasks == <<"tasks">>

\* Object.keys order: own keys are visited in this order
NameSeq == <<NameA, NameB, NameTasks>>

Names == Range(NameSeq)

Keys(m) == SelectSeq(NameSeq, LAMBDA n : n \in DOMAIN m)

\* Object.keys({ ...a, ...b })
MergedKeys(a, b) ==
    Keys(a) \o SelectSeq(Keys(b), LAMBDA n : n \notin DOMAIN a)

\* booleans of the validated map as stored in a JavaScript object
T == "true"
F == "false"

Boolean(v) == IF v = T THEN T ELSE F

\* messages
skippedPrefix == <<"[VALIDATION_SKIPPED] ">>
undefinedPrefix == <<"[VALIDATION_UNDEFINED] ">>
delimiter == "\\x1f"
M1 == <<"Required">>
M2 == <<"Too short">>

\* =====================================================================
\* Part I: the registry (packages/conform-dom/registry.ts)
\* =====================================================================

VARIABLES
    store,      \* Map<string, Form>: DOMAIN store is the set of form ids
    validity,   \* custom validity message of every named field element
    nextSub,    \* number of subscription objects created so far
    last,       \* what the last call did (observation, not program state)
    impl,       \* which parse of the repository serves the form
    formState,  \* the form state carried in the __state__ field
    listFields, \* the list fields of the form: submitted ("x") or not ("-")
    generated,  \* number of list keys generated so far
    parsed,     \* what the last parse did (observation, not program state)
    handles,    \* the form ids add() returned a handle for
    inflight,   \* validation passes issued whose result is not applied yet
    lastReport, \* what the last report() returned (observation)
    computed    \* what the last function applied returned (observation)

FormId == "f"

\* named field elements of the form's live DOM element
Elements == {NameA, NameB}

\* shouldNotify predicates, as the set of (type, name) they accept
UpdateTypes == {"error", "validated", "list"}
AcceptAll == UpdateTypes \X Names
Predicates ==
    { AcceptAll,
      {<<"validated", NameB>>, <<"list", NameTasks>>} }

Callbacks == {"render"}

shouldNotify(sub, update) == <<update.type, update.name>> \in sub.shouldNotify

\* ----- inputs
DefaultValues ==
    { [n \in {NameA} |-> "x"],
      [n \in {NameA, NameTasks} |-> "y"] }

AttributesSet == {[defaultValue |-> d] : d \in DefaultValues}

NullPayload == [t |-> "null"]
MapPayload(m) == [t |-> "map", v |-> m]

NoUpdate == [focusField |-> "absent", remove |-> {}, override |-> EmptyMap]

ListUpdate ==
    [focusField |-> "false", remove |-> {NameTasks},
     override |-> [n \in {NameTasks} |-> "w"]]

Result(payload, error, validated, list, upd) ==
    [payload |-> payload, error |-> error,
     state |-> [validated |-> validated, list |-> list], update |-> upd]

SubmittedA == MapPayload([n \in {NameA} |-> "z"])

\* the SubmissionResults offered to update() and returned by report()
ResetResult == Result(NullPayload, EmptyMap, EmptyMap, EmptyMap, NoUpdate)

CleanResult == Result(SubmittedA, EmptyMap, EmptyMap, EmptyMap, NoUpdate)

FailedResult ==
    Result(SubmittedA, [n \in {NameA} |-> <<M1>>],
           [n \in {NameA} |-> T], EmptyMap, NoUpdate)

SkippedResult ==
    Result(SubmittedA, [n \in {NameA} |-> <<skippedPrefix \o M1>>],
           [n \in {NameA} |-> T], EmptyMap, NoUpdate)

UndefinedResult ==
    Result(SubmittedA, [n \in {NameB} |-> <<undefinedPrefix \o M2>>],
           [n \in {NameA, NameB} |-> IF n = NameA THEN F ELSE T],
           [n \in {NameTasks} |-> <<"0">>], NoUpdate)

ListResult ==
    Result(SubmittedA,
           [n \in {NameA, NameB} |-> IF n = NameA THEN <<M1, M2>> ELSE <<>>],
           [n \in {NameB, NameTasks} |-> T],
           [n \in {NameTasks} |-> <<"0", "k1">>], ListUpdate)

Results ==
    { ResetResult, CleanResult, FailedResult, SkippedResult,
      UndefinedResult, ListResult }

shouldPreventDefault_anyFailure(submission) == submission.state # "accepted"

\* ----- shouldPreventDefault (registry.ts:22)
shouldPreventDefault(submission) ==
    IF submission.state = "accepted" THEN FALSE
    ELSE ~ \E n \in DOMAIN submission.report.error :
             \E i \in DOMAIN submission.report.error[n] :
                startsWith(submission.report.error[n][i], undefinedPrefix)

\* ----- update: the diff (registry.ts:149-188)
includes(arr, x) == \E i \in DOMAIN arr : arr[i] = x

JSONstringify(keys) ==
    IF keys.t = "undefined" THEN <<"undefined">>
    ELSE <<"[">> \o join([i \in DOMAIN keys.v |-> <<keys.v[i]>>], ",") \o <<"]">>

ErrorOf(error, name) == IF name \in DOMAIN error THEN error[name] ELSE <<>>

\* mutant of errorNext: a skipped message is compared as it is written
errorNext_asWritten(prev, messages) == messages

\* the messages compared with the stored ones (registry.ts:154-165)
errorNext(prev, messages) ==
    [i \in DOMAIN messages |->
        IF /\ startsWith(messages[i], skippedPrefix)
           /\ includes(prev, slice(messages[i], Len(skippedPrefix)))
        THEN slice(messages[i], Len(skippedPrefix))
        ELSE messages[i]]

errorUpdates(form, result) ==
    LET keys == MergedKeys(form.error, result.error)
        cand == [i \in DOMAIN keys |->
                    [type |-> "error", name |-> keys[i],
                     prev |-> ErrorOf(form.error, keys[i]),
                     next |-> errorNext(ErrorOf(form.error, keys[i]),
                                        ErrorOf(result.error, keys[i]))]]
    IN  SelectSeq(cand, LAMBDA u :
            join(u.next, delimiter) # join(u.prev, delimiter))

validatedUpdates(form, result) ==
    LET keys == Keys(result.state.validated)
        cand == [i \in DOMAIN keys |->
                    [type |-> "validated", name |-> keys[i],
                     prev |-> IF keys[i] \in DOMAIN form.state.validated
                              THEN form.state.validated[keys[i]]
                              ELSE "undefined",
                     next |-> result.state.validated[keys[i]]]]
    IN  SelectSeq(cand, LAMBDA u : u.next # Boolean(u.prev))

ListOf(list, name) ==
    IF name \in DOMAIN list THEN [t |-> "array", v |-> list[name]]
    ELSE [t |-> "undefined"]

listUpdates(form, result) ==
    LET keys == Keys(result.state.list)
        cand == [i \in DOMAIN keys |->
                    [type |-> "list", name |-> keys[i],
                     prev |-> ListOf(form.state.list, keys[i]),
                     next |-> ListOf(result.state.list, keys[i])]]
    IN  SelectSeq(cand, LAMBDA u :
            JSONstringify(u.next) # JSONstringify(u.prev))

diff(form, result) ==
    errorUpdates(form, result) \o validatedUpdates(form, result)
        \o listUpdates(form, result)

\* ----- update: the new initial value (registry.ts:196-210)
removed(name, prefixes) == \E p \in prefixes : startsWith(name, p)

mergeInitialValue(initialValue, upd) ==
    LET kept == {n \in DOMAIN initialValue :
                    n \notin DOMAIN upd.override /\ ~removed(n, upd.remove)}
    IN  [n \in (DOMAIN upd.override) \cup kept |->
            IF n \in DOMAIN upd.override THEN upd.override[n]
            ELSE initialValue[n]]

\* ----- update: the notification pass (registry.ts:215-238)
\* one update offered to the subscribers still in the set: the ones that
\* accept it are called, in the order of the set, and leave the set
notifyOne_keepNotified(subscribers, u) ==
    [called |-> SelectSeq(subscribers, LAMBDA sub : shouldNotify(sub, u)),
     rest |-> subscribers]

notifyOne(subscribers, u) ==
    [called |-> SelectSeq(subscribers, LAMBDA sub : shouldNotify(sub, u)),
     rest |-> SelectSeq(subscribers, LAMBDA sub : ~shouldNotify(sub, u))]

RECURSIVE notify(_, _)
notify(subscribers, updates) ==
    IF updates = <<>> THEN <<>>
    ELSE LET r == notifyOne(subscribers, Head(updates))
         IN  [i \in DOMAIN r.called |-> r.called[i].id]
                \o notify(r.rest, Tail(updates))

RECURSIVE setCustomValidity(_, _)
setCustomValidity(v, updates) ==
    IF updates = <<>> THEN v
    ELSE LET u == Head(updates)
         IN  setCustomValidity(
                IF u.type = "error" /\ u.name \in Elements
                THEN [v EXCEPT ![u.name] = join(u.next, ", ")]
                ELSE v,
                Tail(updates))

\* what a call is observed to do, beside the store and the DOM it leaves
Quiet ==
    [calls |-> <<>>, updates |-> <<>>, wrote |-> FALSE, focus |-> FALSE,
     domReset |-> FALSE, updateArg |-> <<>>, prevented |-> FALSE,
     returned |-> "nothing", threw |-> FALSE, handlerArg |-> <<>>]

Outcome(st, v, obs) == [store |-> st, validity |-> v, obs |-> obs]

\* mutant of update: a null payload is diffed as any other result
update_withoutResetSignal(st, v, result) ==
    LET form == st[FormId]
        updates == diff(form, result)
        called == [Quiet EXCEPT !.updateArg = <<result>>]
    IN  IF Len(updates) = 0
        THEN Outcome(st, v, called)
        ELSE Outcome(
               [st EXCEPT ![FormId] =
                   [form EXCEPT
                      !.initialValue =
                          mergeInitialValue(form.initialValue, result.update),
                      !.error = result.error,
                      !.state = result.state]],
               setCustomValidity(v, updates),
               [called EXCEPT
                  !.calls = notify(form.subscribers, updates),
                  !.updates = updates,
                  !.wrote = TRUE,
                  !.focus = result.update.focusField \in {"absent", "true"}])

\* update(result) (registry.ts:140-244) on the store st and validity map v
update(st, v, result) ==
    LET form == st[FormId]
        updates == diff(form, result)
        called == [Quiet EXCEPT !.updateArg = <<result>>]
    IN  IF result.payload.t = "null"
        THEN Outcome(st, v, [called EXCEPT !.domReset = TRUE])
        ELSE IF Len(updates) = 0
        THEN Outcome(st, v, called)
        ELSE Outcome(
               [st EXCEPT ![FormId] =
                   [form EXCEPT
                      !.initialValue =
                          mergeInitialValue(form.initialValue, result.update),
                      !.error = result.error,
                      !.state = result.state]],
               setCustomValidity(v, updates),
               [called EXCEPT
                  !.calls = notify(form.subscribers, updates),
                  !.updates = updates,
                  !.wrote = TRUE,
                  !.focus = result.update.focusField \in {"absent", "true"}])

\* ----- the events and validators offered to the handle
Submission(state, result) == [state |-> state, report |-> result]

Submissions ==
    { Submission("accepted", CleanResult),
      Submission("accepted", FailedResult),
      Submission("rejected", FailedResult),
      Submission("rejected", SkippedResult),
      Submission("rejected", UndefinedResult),
      Submission("rejected", ResetResult),
      Submission("pending", UndefinedResult),
      Submission("pending", ListResult) }

Validators ==
    {[kind |-> "absent"], [kind |-> "throws"]}
        \cup {[kind |-> "returns", submission |-> sub] : sub \in Submissions}

GenuineReset == [type |-> "reset", target |-> "form", defaultPrevented |-> FALSE]

ResetEvents ==
    { GenuineReset,
      [GenuineReset EXCEPT !.type = "submit"],
      [GenuineReset EXCEPT !.target = "other"],
      [GenuineReset EXCEPT !.defaultPrevented = TRUE] }

NoAttributes == [t |-> "absent"]

submit_noCatch(st, v, validator) ==
    IF validator.kind = "absent"
    THEN Outcome(st, v, [Quiet EXCEPT !.returned = "plain"])
    ELSE IF validator.kind = "throws"
    THEN Outcome(st, v, [Quiet EXCEPT !.threw = TRUE])
    ELSE IF shouldPreventDefault(validator.submission)
    THEN LET r == update(st, v, validator.submission.report)
         IN  Outcome(r.store, r.validity,
                     [r.obs EXCEPT !.prevented = TRUE,
                                   !.returned = "submission"])
    ELSE Outcome(st, v, [Quiet EXCEPT !.returned = "submission"])

\* submit(event, { onValidate }) (registry.ts:85-139)
submit(st, v, validator) ==
    IF validator.kind = "absent"
    THEN Outcome(st, v, [Quiet EXCEPT !.returned = "plain"])
    ELSE IF validator.kind = "throws"
    THEN \* caught and logged by the catch clause
         Outcome(st, v, [Quiet EXCEPT !.returned = "plain"])
    ELSE IF shouldPreventDefault(validator.submission)
    THEN LET r == update(st, v, validator.submission.report)
         IN  Outcome(r.store, r.validity,
                     [r.obs EXCEPT !.prevented = TRUE,
                                   !.returned = "submission"])
    ELSE Outcome(st, v, [Quiet EXCEPT !.returned = "submission"])

pristine_keepState(form, attributes) ==
    [attributes |-> attributes,
     initialValue |-> attributes.defaultValue,
     error |-> EmptyMap,
     state |-> form.state,
     subscribers |-> form.subscribers]

\* the store entry written by reset (registry.ts:288-297)
pristine(form, attributes) ==
    [attributes |-> attributes,
     initialValue |-> attributes.defaultValue,
     error |-> EmptyMap,
     state |-> [validated |-> EmptyMap, list |-> EmptyMap],
     subscribers |-> form.subscribers]

\* mutant of notifyAll: only the subscribers accepting every record are
\* called
notifyAll_byPredicate(subscribers) ==
    [i \in DOMAIN SelectSeq(subscribers,
                            LAMBDA sub : sub.shouldNotify = AcceptAll) |->
        SelectSeq(subscribers, LAMBDA sub : sub.shouldNotify = AcceptAll)[i].id]

\* the loop over form.subscribers that ends reset (registry.ts:299-302):
\* the subscriptions called, in order
notifyAll(subscribers) == [i \in DOMAIN subscribers |-> subscribers[i].id]

\* mutant of ignored: only the type of the event is tested
ignored_byTypeOnly(event) == event.type # "reset"

\* the events reset returns on (registry.ts:277-283): not a reset, not of
\* this form's element, or default-prevented
ignored(event) ==
    event.type # "reset" \/ event.target # "form" \/ event.defaultPrevented

\* reset(event, updatedAttributes?) (registry.ts:274-303)
reset(st, v, event, updatedAttributes) ==
    IF ignored(event)
    THEN Outcome(st, v, Quiet)
    ELSE LET form == st[FormId]
             attributes == IF updatedAttributes.t = "absent"
                           THEN form.attributes ELSE updatedAttributes.v
         IN  Outcome([st EXCEPT ![FormId] = pristine(form, attributes)], v,
                     [Quiet EXCEPT
                        !.calls = notifyAll(form.subscribers),
                        !.wrote = TRUE])

\* ----- the state machine
registryVars == <<store, validity, nextSub, last, handles, inflight>>

formVars ==
    <<impl, formState, listFields, generated, parsed, lastReport, computed>>

vars == <<store, validity, nextSub, last, impl, formState, listFields,
          generated, parsed, handles, inflight, lastReport, computed>>

EmptyState == [validated |-> EmptyMap, key |-> EmptyMap]

Observation(marker, intents, fields, names, before, stored, result, after) ==
    [marker |-> marker, intents |-> intents, fields |-> fields,
     names |-> names,
     before |-> before, stored |-> stored, thrown |-> result.thrown,
     status |-> result.status, error |-> DOMAIN result.error,
     kind |-> result.kind, payload |-> result.payload,
     listBefore |-> result.listBefore, listAfter |-> after,
     data |-> result.data]

NotParsed ==
    [marker |-> [t |-> "null"], intents |-> <<>>, fields |-> {},
     names |-> {},
     before |-> EmptyMap, stored |-> [t |-> "undefined"],
     thrown |-> "not called", status |-> "none", error |-> {},
     kind |-> "none", payload |-> <<>>,
     listBefore |-> [t |-> "undefined"], listAfter |-> [t |-> "undefined"],
     data |-> [t |-> "undefined"]]

\* no function was applied
NotComputed == [fn |-> "none"]

\* no validation pass was issued
NoPasses == [issued |-> 0, applied |-> 0, waiting |-> <<>>]

\* the submission of the last parse was not reported
NotReported == [called |-> FALSE]

AtRest ==
    /\ impl = "handler"
    /\ formState = EmptyState
    /\ listFields = <<>>
    /\ generated = 0
    /\ parsed = NotParsed
    /\ lastReport = NotReported
    /\ computed = NotComputed

Observed(op, input, subscribers, dirty, obs) ==
    [op |-> op, input |-> input, subscribers |-> subscribers,
     dirty |-> dirty, obs |-> obs]

Dirty(form) ==
    form.error # EmptyMap \/ form.state.validated # EmptyMap
        \/ form.state.list # EmptyMap

Init ==
    /\ store = EmptyMap
    /\ validity = [n \in Elements |-> <<>>]
    /\ nextSub = 0
    /\ last = Observed("none", <<>>, <<>>, FALSE, Quiet)
    /\ handles = {}
    /\ inflight = NoPasses
    /\ AtRest

\* add(formId, attributes, lastResult?) (registry.ts:60-81)
Add(attributes, lastResult) ==
    /\ store' = Put(store, FormId,
          [attributes |-> attributes,
           initialValue |->
               IF lastResult.t = "result" /\ lastResult.v.payload.t = "map"
               THEN lastResult.v.payload.v ELSE attributes.defaultValue,
           error |-> IF lastResult.t = "result" THEN lastResult.v.error
                     ELSE EmptyMap,
           state |-> IF lastResult.t = "result" THEN lastResult.v.state
                     ELSE [validated |-> EmptyMap, list |-> EmptyMap],
           subscribers |-> <<>>])
    /\ last' = Observed("add", <<>>, <<>>, FALSE, Quiet)
    /\ handles' = handles \cup {FormId}
    /\ UNCHANGED <<validity, nextSub, inflight>>
    /\ UNCHANGED formVars

\* subscribe(formId, callback, shouldNotify) (registry.ts:310-324)
Subscribe(callback, pred) ==
    /\ FormId \in DOMAIN store
    /\ nextSub < MaxSubscriptions
    /\ store' = [store EXCEPT ![FormId].subscribers =
                    Append(@, [id |-> nextSub, shouldNotify |-> pred,
                               callback |-> callback])]
    /\ nextSub' = nextSub + 1
    /\ last' = Observed("subscribe", <<>>, <<>>, FALSE, Quiet)
    /\ UNCHANGED <<validity, handles, inflight>>
    /\ UNCHANGED formVars

\* mutant of dispose: every subscription with the callback is removed
dispose_byCallback(subscribers, id) ==
    SelectSeq(subscribers, LAMBDA sub :
        \A own \in Range(subscribers) :
            own.id = id => sub.callback # own.callback)

\* form.subscribers.filter((sub) => sub !== subscripition)
\* (registry.ts:331)
dispose(subscribers, id) == SelectSeq(subscribers, LAMBDA sub : sub.id # id)

\* the disposer returned by subscribe (registry.ts:326-333)
Unsubscribe(id) ==
    /\ FormId \in DOMAIN store
    /\ id < nextSub
    /\ store' = [store EXCEPT ![FormId].subscribers = dispose(@, id)]
    /\ last' = Observed("unsubscribe", id, <<>>, FALSE, Quiet)
    /\ UNCHANGED <<validity, nextSub, handles, inflight>>
    /\ UNCHANGED formVars

Apply(op, input, r) ==
    /\ store' = r.store
    /\ validity' = r.validity
    /\ last' = Observed(op, input, store[FormId].subscribers,
                        Dirty(store[FormId]), r.obs)
    /\ UNCHANGED <<nextSub, handles, inflight>>
    /\ UNCHANGED formVars

Update(result) ==
    /\ FormId \in DOMAIN store
    /\ Apply("update", result, update(store, validity, result))

Submit(validator) ==
    /\ FormId \in DOMAIN store
    /\ Apply("submit", validator, submit(store, validity, validator))

Reset(event, updatedAttributes) ==
    /\ FormId \in DOMAIN store
    /\ Apply("reset", [event |-> event, attributes |-> updatedAttributes],
             reset(store, validity, event, updatedAttributes))

Next ==
    \/ \E a \in AttributesSet :
         \E r \in {[t |-> "absent"], [t |-> "result", v |-> FailedResult]} :
            Add(a, r)
    \/ \E c \in Callbacks, p \in Predicates : Subscribe(c, p)
    \/ \E id \in 0 .. (MaxSubscriptions - 1) : Unsubscribe(id)
    \/ \E r \in Results : Update(r)
    \/ \E v \in Validators : Submit(v)
    \/ \E e \in ResetEvents : Reset(e, NoAttributes)
    \/ \E a \in AttributesSet : Reset(GenuineReset, [t |-> "given", v |-> a])

Spec == Init /\ [][Next]_vars

\* =====================================================================
\* Part II: names, value trees and lists
\*   (packages/conform-dom/formdata.ts, packages/conform-dom/intent.ts)
\* =====================================================================

DigitSeq == <<"0", "1", "2", "3", "4", "5", "6", "7", "8", "9">>

IsDigit(tok) == \E i \in DOMAIN DigitSeq : DigitSeq[i] = tok

DigitValue(tok) == (CHOOSE i \in DOMAIN DigitSeq : DigitSeq[i] = tok) - 1

\* Number.prototype.toString for an index
RECURSIVE ToDigits(_)
ToDigits(n) ==
    IF n < 10 THEN <<DigitSeq[n + 1]>>
    ELSE ToDigits(n \div 10) \o <<DigitSeq[(n % 10) + 1]>>

\* Number(index) for a string of digits; Number('') is 0
RECURSIVE Number(_)
Number(digits) ==
    IF digits = <<>> THEN 0
    ELSE 10 * Number(SubSeq(digits, 1, Len(digits) - 1))
            + DigitValue(digits[Len(digits)])

\* path segments
Key(s) == [k |-> "string", s |-> s]
Index(n) == [k |-> "number", n |-> n]
NaNIndex == [k |-> "NaN"]

\* the end of the bracketed index starting at s[i] = "[", or 0
BracketEnd(s, i) ==
    LET ends == {j \in (i + 1) .. Len(s) :
                    /\ s[j] = "]"
                    /\ \A m \in (i + 1) .. (j - 1) : IsDigit(s[m])}
    IN  IF s[i] = "[" /\ ends # {}
        THEN CHOOSE j \in ends : \A m \in ends : j <= m
        ELSE 0

\* a segment between separators (formdata.ts:35-43)
segment(buf) ==
    IF buf = <<>> THEN <<>>
    ELSE IF buf[1] = "[" /\ buf[Len(buf)] = "]"
    THEN <<NaNIndex>>
    ELSE <<Key(buf)>>

RECURSIVE scanPaths(_, _, _)
scanPaths(s, i, buf) ==
    IF i > Len(s) THEN segment(buf)
    ELSE IF s[i] = "." THEN segment(buf) \o scanPaths(s, i + 1, <<>>)
    ELSE IF BracketEnd(s, i) > 0
    THEN segment(buf)
            \o <<Index(Number(SubSeq(s, i + 1, BracketEnd(s, i) - 1)))>>
            \o scanPaths(s, BracketEnd(s, i) + 1, <<>>)
    ELSE scanPaths(s, i + 1, Append(buf, s[i]))

\* getPaths(name) (formdata.ts:27-46)
getPaths(name) == IF name = <<>> THEN <<>> ELSE scanPaths(name, 1, <<>>)

\* mutant of formatPaths: a string segment is always joined with a dot
RECURSIVE formatPaths_alwaysDot(_)
formatPaths_alwaysDot(paths) ==
    IF paths = <<>> THEN <<>>
    ELSE LET name == formatPaths_alwaysDot(SubSeq(paths, 1, Len(paths) - 1))
             path == paths[Len(paths)]
         IN  IF path.k = "number"
             THEN name \o <<"[">> \o ToDigits(path.n) \o <<"]">>
             ELSE name \o <<".">> \o path.s

\* formatPaths(paths) (formdata.ts:55-67)
RECURSIVE formatPaths(_)
formatPaths(paths) ==
    IF paths = <<>> THEN <<>>
    ELSE LET name == formatPaths(SubSeq(paths, 1, Len(paths) - 1))
             path == paths[Len(paths)]
         IN  IF path.k = "number"
             THEN name \o <<"[">> \o ToDigits(path.n) \o <<"]">>
             ELSE IF path.k = "NaN"
             THEN name \o <<"[", "NaN", "]">>
             ELSE IF name = <<>> \/ path.s = <<>>
             THEN name \o path.s
             ELSE name \o <<".">> \o path.s

Name(root, path) == formatPaths(<<Key(<<root>>)>> \o path)

\* ----- values
Undefined == [t |-> "undefined"]
Hole == [t |-> "hole"]
Str(s) == [v |-> s, t |-> "string"]
Bool(b) == [v |-> b, t |-> "boolean"]
Arr(items) == [v |-> items, t |-> "array"]
Obj(props) == [v |-> props, t |-> "object", root |-> Undefined]
TypeError == [t |-> "TypeError"]

IsNullish(v) == v.t \in {"undefined", "hole", "null"}

\* property key of a path segment on a plain object
PropertyKey(key) ==
    IF key.k = "number" THEN ToDigits(key.n)
    ELSE IF key.k = "NaN" THEN <<"NaN">> ELSE key.s

\* pointer[key]
GetProp(node, key) ==
    IF node.t = "array"
    THEN IF key.k = "number" /\ key.n < Len(node.v)
         THEN (IF node.v[key.n + 1].t = "hole" THEN Undefined
               ELSE node.v[key.n + 1])
         ELSE Undefined
    ELSE IF node.t = "object"
    THEN IF PropertyKey(key) \in DOMAIN node.v
         THEN node.v[PropertyKey(key)] ELSE Undefined
    ELSE Undefined

\* pointer[key] = value
SetProp(node, key, value) ==
    IF node.t = "array" /\ key.k = "number"
    THEN [node EXCEPT !.v =
            [i \in 1 .. (IF key.n < Len(node.v) THEN Len(node.v)
                         ELSE key.n + 1) |->
                IF i = key.n + 1 THEN value
                ELSE IF i <= Len(node.v) THEN node.v[i] ELSE Hole]]
    ELSE IF node.t = "object"
    THEN [node EXCEPT !.v = Put(node.v, PropertyKey(key), value)]
    ELSE TypeError

\* the container created for a missing step (formdata.ts:89)
Container(nextKey) == IF nextKey.k = "number" THEN Arr(<<>>) ELSE Obj(EmptyMap)

Step(node, paths) ==
    IF IsNullish(GetProp(node, paths[1])) THEN Container(paths[2])
    ELSE GetProp(node, paths[1])

\* the value found by setValue at the end of the paths
RECURSIVE getValue(_, _)
getValue(node, paths) ==
    IF paths = <<>> THEN node
    ELSE IF Len(paths) = 1 THEN GetProp(node, paths[1])
    ELSE getValue(Step(node, paths), Tail(paths))

\* the target after setValue wrote value at the end of the paths
RECURSIVE putValue(_, _, _)
putValue(node, paths, value) ==
    IF paths = <<>> THEN node
    ELSE IF Len(paths) = 1 THEN SetProp(node, paths[1], value)
    ELSE SetProp(node, paths[1],
                 putValue(Step(node, paths), Tail(paths), value))

\* the value setValue(target, name, valueFn) hands to valueFn
\* (formdata.ts:92)
previous(target, name) == getValue(target, getPaths(name))

\* setValue(target, name, valueFn) (formdata.ts:72-98): the target after
\* the call, next being what valueFn returned for previous(target, name)
setValue(target, name, next) == putValue(target, getPaths(name), next)

\* ----- list operations (intent.ts:217-298)
Num(n) == [v |-> n, t |-> "number"]

ListPayload(name, operation, defaultValue, index, from, to) ==
    [name |-> name, operation |-> operation, defaultValue |-> defaultValue,
     index |-> index, from |-> from, to |-> to]

Prepend(name, dv) == ListPayload(name, "prepend", dv, Undefined, Undefined, Undefined)
AppendTo(name, dv) == ListPayload(name, "append", dv, Undefined, Undefined, Undefined)
Replace(name, i, dv) == ListPayload(name, "replace", dv, Num(i), Undefined, Undefined)
Remove(name, i) == ListPayload(name, "remove", Undefined, Num(i), Undefined, Undefined)
Reorder(name, from, to) == ListPayload(name, "reorder", Undefined, Undefined, Num(from), Num(to))

Min(x, y) == IF x < y THEN x ELSE y
Max(x, y) == IF x > y THEN x ELSE y

\* the integer Array.prototype.splice makes of its start argument
ToInteger(arg) == IF arg.t = "number" THEN arg.v ELSE 0

\* Array.prototype.splice(start, deleteCount, ...items)
splice(list, start, deleteCount, items) ==
    LET len == Len(list)
        rel == ToInteger(start)
        actualStart == IF rel < 0 THEN Max(len + rel, 0) ELSE Min(rel, len)
        count == Min(Max(deleteCount, 0), len - actualStart)
    IN  [list |-> SubSeq(list, 1, actualStart) \o items
                    \o SubSeq(list, actualStart + count + 1, len),
         removed |-> SubSeq(list, actualStart + 1, actualStart + count)]

\* updateList(list, payload) (intent.ts:275-298): the list after the call
updateList(list, payload) ==
    IF payload.operation = "prepend" THEN <<payload.defaultValue>> \o list
    ELSE IF payload.operation = "append" THEN Append(list, payload.defaultValue)
    ELSE IF payload.operation = "replace"
    THEN splice(list, payload.index, 1, <<payload.defaultValue>>).list
    ELSE IF payload.operation = "remove"
    THEN splice(list, payload.index, 1, <<>>).list
    ELSE LET taken == splice(list, payload.from, 1, <<>>)
         IN  splice(taken.list, payload.to, 0, taken.removed).list

\* Object.keys(list) of an array: the indices of its own elements
ObjectKeys(list) ==
    LET idx == SelectSeq([i \in 1 .. Len(list) |-> i],
                         LAMBDA i : list[i].t # "hole")
    IN  [j \in 1 .. Len(idx) |-> ToDigits(idx[j] - 1)]

\* ----- the validated flags of a list (intent.ts:300-356)
TokenOrder == <<".", "[", "]", "0", "1", "2", "3", "4", "5", "6", "7", "8",
                "9", "a", "b", "Extra", "tasks">>

Rank(tok) == CHOOSE i \in DOMAIN TokenOrder : TokenOrder[i] = tok

\* prev.localeCompare(next) on names
RECURSIVE localeCompare(_, _)
localeCompare(prev, next) ==
    IF prev = <<>> /\ next = <<>> THEN 0
    ELSE IF prev = <<>> THEN -1
    ELSE IF next = <<>> THEN 1
    ELSE IF Rank(prev[1]) < Rank(next[1]) THEN -1
    ELSE IF Rank(prev[1]) > Rank(next[1]) THEN 1
    ELSE localeCompare(Tail(prev), Tail(next))

\* Object.keys(data).sort((prev, next) => next.localeCompare(prev))
RECURSIVE sortDesc(_)
sortDesc(names) ==
    IF names = {} THEN <<>>
    ELSE LET top == CHOOSE x \in names :
                        \A y \in names : localeCompare(x, y) >= 0
         IN  <<top>> \o sortDesc(names \ {top})

Leaf(flag) == IF flag = "undefined" THEN Undefined ELSE Bool(flag)
Raw(value) == IF value.t = "boolean" THEN value.v ELSE "undefined"

\* the callback given to setValue at intent.ts:315-324
withRoot(prev, value) ==
    IF prev.t = "undefined" THEN value
    ELSE IF prev.t = "object" THEN [prev EXCEPT !.root = value]
    ELSE IF prev.t = "array" THEN prev
    ELSE TypeError

\* the loop at intent.ts:311-329: the target built from sorted keys
RECURSIVE collect(_, _, _, _)
collect(data, name, keys, target) ==
    IF keys = <<>> THEN target
    ELSE IF startsWith(keys[1], name) /\ keys[1] # name
    THEN collect(data, name, Tail(keys),
                 setValue(target, keys[1],
                          withRoot(previous(target, keys[1]),
                                   Leaf(data[keys[1]]))))
    ELSE collect(data, name, Tail(keys), target)

\* flatten(value, { resolve, prefix }) with the resolve of
\* intent.ts:342-352 (formdata.ts:156-221), as name/value pairs
RECURSIVE flattenState(_, _)
flattenState(node, name) ==
    IF node.t = "array"
    THEN UNION {flattenState(
                    IF node.v[i].t = "hole" THEN Undefined ELSE node.v[i],
                    name \o <<"[">> \o ToDigits(i - 1) \o <<"]">>)
                : i \in 1 .. Len(node.v)}
    ELSE IF node.t = "object"
    THEN (IF IsNullish(node.root) THEN {} ELSE {<<name, Raw(node.root)>>})
         \cup UNION {flattenState(node.v[k],
                        IF name = <<>> THEN k ELSE name \o <<".">> \o k)
                     : k \in DOMAIN node.v}
    ELSE {<<name, Raw(node)>>}

Assign(data, pairs) ==
    [n \in (DOMAIN data) \cup {p[1] : p \in pairs} |->
        IF \E p \in pairs : p[1] = n
        THEN (CHOOSE p \in pairs : p[1] = n)[2]
        ELSE data[n]]

Ok(v) == [t |-> "ok", v |-> v]
Throw(message) == [t |-> "throw", message |-> message]

\* updateState(data, name, payload) (intent.ts:300-356): data after the call
updateState(data, name, payload) ==
    LET keys == sortDesc(DOMAIN data)
        moved == {k \in DOMAIN data : startsWith(k, name) /\ k # name}
        target == collect(data, name, keys, Obj(EmptyMap))
        found == getValue(target, getPaths(name))
        value == IF IsNullish(found) THEN Arr(<<>>) ELSE found
        kept == [n \in (DOMAIN data) \ moved |-> data[n]]
    IN  IF value.t # "array"
        THEN Throw("The name provided is not pointed to a list")
        ELSE Ok(Assign(kept,
                       flattenState(Arr(updateList(value.v, payload)), name)))

\* ----- intents (intent.ts:80-215)
NoIntent == [t |-> "null"]
Marker(s) == [v |-> s, t |-> "string"]

indexOf(s, tok) ==
    IF \E i \in DOMAIN s : s[i] = tok
    THEN (CHOOSE i \in DOMAIN s : s[i] = tok /\ \A j \in 1 .. (i - 1) : s[j] # tok) - 1
    ELSE -1

\* JSON.stringify of a number, a string, a default value
Digits(n) == IF n < 0 THEN <<"-">> \o ToDigits(-n) ELSE ToDigits(n)
Quoted(s) == <<"\"">> \o s \o <<"\"">>
Property(key, value) ==
    IF value.t = "undefined" THEN <<>>
    ELSE IF value.t = "number" THEN << <<key, ":">> \o Digits(value.v) >>
    ELSE << <<key, ":">> \o Quoted(value.v) >>

\* JSON.stringify(payload) of a list payload (intent.ts:167-169)
JSONstringifyPayload(payload) ==
    <<"{">>
        \o join(Property("name", Str(payload.name))
                \o Property("operation", Str(<<payload.operation>>))
                \o Property("defaultValue", payload.defaultValue)
                \o Property("index", payload.index)
                \o Property("from", payload.from)
                \o Property("to", payload.to), ",")
        \o <<"}">>

Indices == {-1, 0, 1, 2, 5}
DefaultValueSet == {Undefined, Str(<<"x">>)}
ListNames == {NameTasks, NameA}

ListPayloads ==
    UNION {
        {Prepend(n, dv), AppendTo(n, dv)} \cup {Replace(n, i, dv) : i \in Indices}
        : <<n, dv>> \in ListNames \X DefaultValueSet }
    \cup {Remove(n, i) : <<n, i>> \in ListNames \X Indices}
    \cup {Reorder(n, i, j) : <<n, i, j>> \in ListNames \X Indices \X Indices}

\* JSON.parse(serializedPayload) (intent.ts:170-172), for the texts
\* JSON.stringify writes: one object of strings and integers
JSONKeys == {"name", "operation", "defaultValue", "index", "from", "to"}
NumberTokens == {"-"} \cup Range(DigitSeq)

\* the first position from i on whose token is in stops, or one past the
\* end of the text
FirstOf(text, i, stops) ==
    LET least(found) ==
            IF found = {} THEN Len(text) + 1
            ELSE CHOOSE j \in found : \A k \in found : j <= k
    IN  least({j \in i .. Len(text) : text[j] \in stops})

\* the string that starts at position i and closes at closing
readString(text, i, closing) ==
    IF closing > Len(text) THEN Throw("SyntaxError")
    ELSE [t |-> "value", next |-> closing + 1,
          v |-> Str(SubSeq(text, i + 1, closing - 1))]

\* the integer of the digits, which end before stop
readDigits(digits, negative, stop) ==
    IF digits = <<>> \/ "-" \in Range(digits)
    THEN Throw("SyntaxError")
    ELSE [t |-> "value", next |-> stop,
          v |-> Num(IF negative THEN 0 - Number(digits)
                    ELSE Number(digits))]

readNumber(text, i, stop) ==
    readDigits(SubSeq(text, IF stop > i /\ text[i] = "-" THEN i + 1 ELSE i,
                      stop - 1),
               stop > i /\ text[i] = "-", stop)

\* the value that starts at position i and the position after it
readValue(text, i) ==
    IF text[i] = "\""
    THEN readString(text, i, FirstOf(text, i + 1, {"\""}))
    ELSE readNumber(text, i, FirstOf(text, i, Range(text) \ NumberTokens))

\* the members of the object from position i on, added to those read
RECURSIVE readMembers(_, _, _)
readMembers(text, i, members) ==
    IF i + 2 > Len(text) \/ text[i] \notin JSONKeys \/ text[i + 1] # ":"
    THEN Throw("SyntaxError")
    ELSE LET after(value) ==
                IF value.t = "throw" THEN value
                ELSE IF value.next = Len(text) /\ text[value.next] = "}"
                THEN Ok(Put(members, text[i], value.v))
                ELSE IF value.next < Len(text) /\ text[value.next] = ","
                THEN readMembers(text, value.next + 1,
                                 Put(members, text[i], value.v))
                ELSE Throw("SyntaxError")
         IN  after(readValue(text, i + 2))

PropertyOf(members, key) ==
    IF key \in DOMAIN members THEN members[key] ELSE Undefined

\* the object read, as a list payload: a property that is absent reads
\* undefined
PayloadOf(members) ==
    ListPayload(IF "name" \in DOMAIN members /\ members["name"].t = "string"
                THEN members["name"].v ELSE <<>>,
                IF "operation" \in DOMAIN members
                    /\ members["operation"].t = "string"
                    /\ Len(members["operation"].v) = 1
                THEN members["operation"].v[1] ELSE "undefined",
                PropertyOf(members, "defaultValue"), PropertyOf(members, "index"),
                PropertyOf(members, "from"), PropertyOf(members, "to"))

JSONparse(text) ==
    IF Len(text) < 2 \/ text[1] # "{" THEN Throw("SyntaxError")
    ELSE IF text = <<"{", "}">>
    THEN [v |-> PayloadOf(EmptyMap), t |-> "payload"]
    ELSE LET object(read) ==
                IF read.t = "throw" THEN read
                ELSE [v |-> PayloadOf(read.v), t |-> "payload"]
         IN  object(readMembers(text, 2, EmptyMap))

\* the intents: createIntent(options) (intent.ts:107-148)
Intent(id, type, json) == [id |-> id, type |-> type, json |-> json]
validate == Intent("validate", "validate", FALSE)
list == Intent("list", "list", TRUE)
custom == Intent("custom", "validate", FALSE)

\* intent.serialize(payload) (intent.ts:120-122)
serialize(intent, payload) ==
    <<intent.type, "/">>
        \o (IF intent.json THEN JSONstringifyPayload(payload) ELSE payload)

\* mutant of deserialize: the text is cut at its last '/'
deserialize_lastSeparator(intent, serializedIntent) ==
    LET found == {i \in DOMAIN serializedIntent : serializedIntent[i] = "/"}
        seperatorIndex ==
            IF found = {} THEN -1
            ELSE (CHOOSE i \in found : \A j \in found : j <= i) - 1
        type == SubSeq(serializedIntent, 1, seperatorIndex)
        serializedPayload == slice(serializedIntent, seperatorIndex + 1)
    IN  IF seperatorIndex > -1 /\ type = <<intent.type>>
        THEN (IF intent.json THEN JSONparse(serializedPayload)
              ELSE Str(serializedPayload))
        ELSE [t |-> "null"]

\* intent.deserialize(serializedIntent) (intent.ts:123-139)
deserialize(intent, serializedIntent) ==
    LET seperatorIndex == indexOf(serializedIntent, "/")
        type == SubSeq(serializedIntent, 1, seperatorIndex)
        serializedPayload == slice(serializedIntent, seperatorIndex + 1)
    IN  IF seperatorIndex > -1 /\ type = <<intent.type>>
        THEN (IF intent.json THEN JSONparse(serializedPayload)
              ELSE Str(serializedPayload))
        ELSE [t |-> "null"]

\* the truthiness of a deserialized payload
Truthy(payload) ==
    IF payload.t = "string" THEN payload.v # <<>> ELSE payload.t = "payload"

\* mutant of preprocess: the default keys are derived from the list after
\* the operation
preprocess_keysAfter(data, payload) ==
    LET paths == getPaths(payload.name)
        currentValue == getValue(data, paths)
        current == IF IsNullish(currentValue) THEN Arr(<<>>) ELSE currentValue
    IN  IF paths = <<>> THEN Throw("TypeError")
        ELSE IF ~IsNullish(currentValue) /\ currentValue.t # "array"
        THEN Throw("The list intent can only be applied to a list")
        ELSE [t |-> "context",
              defaultListKeys |-> ObjectKeys(updateList(current.v, payload)),
              data |-> putValue(data, paths,
                                Arr(updateList(current.v, payload)))]

\* list: preprocess(data, payload) (intent.ts:173-189)
preprocess(data, payload) ==
    LET paths == getPaths(payload.name)
        currentValue == getValue(data, paths)
        current == IF IsNullish(currentValue) THEN Arr(<<>>) ELSE currentValue
    IN  IF paths = <<>> THEN Throw("TypeError")
        ELSE IF ~IsNullish(currentValue) /\ currentValue.t # "array"
        THEN Throw("The list intent can only be applied to a list")
        ELSE [t |-> "context",
              defaultListKeys |-> ObjectKeys(current.v),
              data |-> putValue(data, paths,
                                Arr(updateList(current.v, payload)))]

Handler(kind, payload, data, defaultListKeys) ==
    [t |-> "handler", kind |-> kind, payload |-> payload, data |-> data,
     defaultListKeys |-> defaultListKeys]

\* intent.createHandler(data, payload) (intent.ts:140-146)
createHandler(intent, data, payload) ==
    IF intent.json
    THEN LET context == preprocess(data, payload.v)
         IN  IF context.t = "throw" THEN context
             ELSE Handler(intent.id, payload.v, context.data,
                          context.defaultListKeys)
    ELSE Handler(intent.id, payload.v, data, <<>>)

\* the loop at intent.ts:257-265
RECURSIVE dispatch(_, _, _)
dispatch(marker, data, intents) ==
    IF intents = <<>> THEN Throw("Unknown intent")
    ELSE LET payload == deserialize(intents[1], marker)
         IN  IF payload.t = "throw" THEN payload
             ELSE IF Truthy(payload)
             THEN createHandler(intents[1], data, payload)
             ELSE dispatch(marker, data, Tail(intents))

\* getIntentHandler(form, intents) (intent.ts:252-273)
getIntentHandler(form, intents) ==
    IF form.intent.t = "string" /\ form.intent.v # <<>>
    THEN dispatch(form.intent.v, form.data, intents)
    ELSE Handler("fallback", <<>>, form.data, <<>>)

\* ----- the intent of a payload (intent.ts:18-41)
File == [t |-> "file"]

\* a truthy entry of a FormData: a File, or a string that is not empty
TruthyEntry(value) == value.t = "file" \/ value.v # <<>>

\* a === b on entries of a FormData
StrictEqual(a, b) ==
    IF a.t = "string" /\ b.t = "string" THEN a.v = b.v
    ELSE a.t = "undefined" /\ b.t = "undefined"

\* getIntent(payload) on payload.getAll('__intent__')
getIntent(all) ==
    LET intent == IF Len(all) >= 1 THEN all[1] ELSE Undefined
        secondIntent == IF Len(all) >= 2 THEN all[2] ELSE Undefined
    IN  IF all = <<>> THEN Ok(NoIntent)
        ELSE IF \/ intent.t # "string"
                \/ (secondIntent.t # "undefined" /\ TruthyEntry(secondIntent)
                      /\ ~StrictEqual(intent, secondIntent))
                \/ Len(all) > 2
        THEN Throw("The intent could only be set on a button")
        ELSE Ok(intent)

\* ----- resolving a payload (intent.ts:43-78, conform-zod/parse.ts:26-45)
Entry(name, value) == [name |-> name, value |-> value]

\* mergeValue(prev, next) (conform-zod/parse.ts:34-45, intent.ts:61-69)
mergeValue(prev, next) ==
    IF IsNullish(prev) \/ (prev.t = "string" /\ prev.v = <<>>) THEN next
    ELSE IF prev.t = "array" THEN Arr(Append(prev.v, next))
    ELSE Arr(<<prev, next>>)

\* the loop over payload.entries() (intent.ts:55-70)
RECURSIVE resolveData(_, _)
resolveData(entries, data) ==
    IF entries = <<>> THEN data
    ELSE resolveData(Tail(entries),
                     setValue(data, entries[1].name,
                              mergeValue(previous(data, entries[1].name),
                                         entries[1].value)))

fieldsOf(entries) == [i \in DOMAIN entries |-> entries[i].name]

\* resolve(payload) (intent.ts:43-78)
resolve(entries, intent, state) ==
    [data |-> resolveData(entries, Obj(EmptyMap)), intent |-> intent,
     state |-> state, fields |-> fieldsOf(entries)]

\* ----- state updates of the intents
IsTrue(validated, name) == name \in DOMAIN validated /\ validated[name] = T

IsUndefined(validated, name) ==
    name \notin DOMAIN validated \/ validated[name] = "undefined"

MarkAll(validated, names) ==
    [n \in (DOMAIN validated) \cup names |->
        IF n \in names THEN T ELSE validated[n]]

\* the key generated for a new slot (intent.ts:203): a key that is not in
\* use, the n-th one generated
GeneratedKey(n) == <<"key">> \o ToDigits(n)

IsInsert(payload) == payload.operation \in {"append", "prepend", "replace"}

\* list: update(result, payload, context) (intent.ts:190-214)
listUpdate(state, payload, defaultListKeys, n) ==
    LET keys == IF payload.name \in DOMAIN state.key
                THEN state.key[payload.name] ELSE defaultListKeys
        validated == updateState(state.validated, payload.name,
                        IF IsInsert(payload)
                        THEN [payload EXCEPT !.defaultValue = Undefined]
                        ELSE payload)
        updated == updateList(keys,
                        IF IsInsert(payload)
                        THEN [payload EXCEPT !.defaultValue = GeneratedKey(n)]
                        ELSE payload)
    IN  IF validated.t = "throw" THEN validated
        ELSE Ok([validated |-> Put(validated.v, payload.name, T),
                 key |-> Put(state.key, payload.name, updated)])

\* the handler returned by getIntentHandler, applied to a result
\* (intent.ts:143-145, 157-159, 268-272)
applyHandler(handler, state, fields, error, n) ==
    IF handler.kind = "validate"
    THEN Ok([state EXCEPT !.validated = Put(state.validated, handler.payload, T)])
    ELSE IF handler.kind = "list"
    THEN listUpdate(state, handler.payload, handler.defaultListKeys, n)
    ELSE IF handler.kind = "fallback"
    THEN Ok([state EXCEPT !.validated =
                MarkAll(state.validated, Range(fields) \cup DOMAIN error)])
    ELSE Ok(state)

\* ----- submissions
ErrorMap(names) == [n \in names |-> <<M1>>]

Restrict(error, names) == [n \in (DOMAIN error) \cap names |-> error[n]]

Parsed(status, error, state, data, listBefore, kind, payload) ==
    [thrown |-> "none", status |-> status, error |-> error, state |-> state,
     data |-> data, listBefore |-> listBefore, kind |-> kind,
     payload |-> payload]

Thrown(message, state) ==
    [thrown |-> message, status |-> "none", error |-> EmptyMap,
     state |-> state, data |-> Undefined, listBefore |-> Undefined,
     kind |-> "none", payload |-> <<>>]

\* mutant of pendingError: a pending submission reports every error
pendingError_unfiltered(error, validated) == error

\* the error map of a pending submission (part_013:78-86)
pendingError(error, validated) ==
    Restrict(error, {n \in DOMAIN error : IsTrue(validated, n)})

\* parse(payload, { schema }) by resolve and getIntentHandler
\* (part_013:64-112, 140-180); names are the names the schema rejects
parseByHandler(entries, intent, state, names, n) ==
    LET form == resolve(entries, intent, state)
        handler == getIntentHandler(form, <<validate, list>>)
        error == ErrorMap(names)
        updated == applyHandler(handler, state, form.fields, error, n)
        pending == intent.t # "null"
    IN  IF handler.t = "throw" THEN Thrown(handler.message, state)
        ELSE IF updated.t = "throw" THEN Thrown(updated.message, state)
        ELSE Parsed(IF pending THEN "pending"
                    ELSE IF names # {} THEN "rejected" ELSE "accepted",
                    IF pending THEN pendingError(error, updated.v.validated)
                    ELSE error,
                    updated.v, handler.data,
                    IF handler.kind = "list"
                    THEN getValue(form.data, getPaths(handler.payload.name))
                    ELSE Undefined,
                    handler.kind, handler.payload)

\* parseIntent(intent) of the package, from the marker format
\* <type>/<payload>
parseIntent(intent) ==
    LET name == deserialize(validate, intent)
        payload == deserialize(list, intent)
    IN  IF name.t = "string" THEN [t |-> "validate", payload |-> name.v]
        ELSE IF payload.t = "throw" THEN payload
        ELSE IF payload.t = "payload" THEN [t |-> "list", payload |-> payload.v]
        ELSE [t |-> "null"]

\* resolveIntent(payload) (conform-zod/parse.ts:75-91, part_014:83-99)
resolveIntent(intent) ==
    IF intent.t = "null" \/ intent.v = <<>>
    THEN [intent |-> NoIntent, result |-> [t |-> "null"]]
    ELSE [intent |-> intent, result |-> parseIntent(intent.v)]

\* getError(error, validated, defaultValidated)
\* (conform-zod/parse.ts:47-65, part_014:48-66)
getError(names, validated, defaultValidated) ==
    LET marked == [n \in (DOMAIN validated) \cup
                        (IF defaultValidated THEN names ELSE {}) |->
                      IF defaultValidated /\ n \in names
                            /\ IsUndefined(validated, n)
                      THEN T ELSE validated[n]]
    IN  [validated |-> marked,
         error |-> ErrorMap({n \in names :
                        IF IsUndefined(marked, n) THEN defaultValidated
                        ELSE marked[n] = T})]

\* createSubmission(result, context)
\* (conform-zod/parse.ts:112-157, part_014:119-165)
createSubmission(names, intent, state) ==
    LET reported == getError(names, state.validated, intent.t = "null")
    IN  IF names # {}
        THEN [status |-> "rejected", error |-> reported.error,
              state |-> [state EXCEPT !.validated = reported.validated]]
        ELSE IF intent.t # "null"
        THEN [status |-> "pending", error |-> EmptyMap, state |-> state]
        ELSE [status |-> "accepted", error |-> EmptyMap, state |-> state]

\* `${index}` of a list payload
IndexText(index) ==
    IF index.t = "number" THEN Digits(index.v) ELSE <<"undefined">>

\* mutant of invalidate: the flags under the index are left as they are
invalidate_nothing(validated, payload) == validated

\* the loop at conform-zod/parse.ts:232-243, part_014:228-239
invalidate(validated, payload) ==
    IF payload.operation \in {"remove", "replace"}
    THEN [n \in DOMAIN validated |->
            IF startsWith(n, payload.name \o <<"[">>
                             \o IndexText(payload.index) \o <<"]">>)
            THEN F ELSE validated[n]]
    ELSE validated

\* the keys after the operation (conform-zod/parse.ts:218-230,
\* part_014:253-265)
updateKeys(keys, payload, n) ==
    updateList(keys,
               IF IsInsert(payload)
               THEN [payload EXCEPT !.defaultValue = GeneratedKey(n)]
               ELSE payload)

Listed(state, data, listBefore) ==
    [t |-> "ok", state |-> state, data |-> data, listBefore |-> listBefore]

\* case 'list' of parse (conform-zod/parse.ts:206-248)
listCase(state, data, payload, n) ==
    LET paths == getPaths(payload.name)
        found == getValue(data, paths)
        current == IF IsNullish(found) THEN Arr(<<>>) ELSE found
        keys == IF payload.name \in DOMAIN state.key
                THEN state.key[payload.name] ELSE ObjectKeys(current.v)
    IN  IF paths = <<>> THEN Throw("TypeError")
        ELSE IF ~IsNullish(found) /\ found.t # "array"
        THEN Throw("The list intent can only be applied to a list")
        ELSE Listed([validated |-> Put(invalidate(state.validated, payload),
                                       payload.name, T),
                     key |-> Put(state.key, payload.name,
                                 updateKeys(keys, payload, n))],
                    putValue(data, paths, Arr(updateList(current.v, payload))),
                    found)

\* case 'list' of parse (part_014:219-270); updateList is called for the
\* list it leaves
listCaseOfUpdate(state, data, payload, n) ==
    LET paths == getPaths(payload.name)
        found == getValue(data, paths)
        current == IF IsNullish(found) THEN Arr(<<>>) ELSE found
        defaultList == updateList(current.v, payload)
        keys == IF payload.name \in DOMAIN state.key
                THEN updateKeys(state.key[payload.name], payload, n)
                ELSE ObjectKeys(defaultList)
    IN  IF paths = <<>> THEN Throw("TypeError")
        ELSE IF ~IsNullish(found) /\ found.t # "array"
        THEN Throw("The list intent can only be applied to a list")
        ELSE Listed([validated |-> Put(invalidate(state.validated, payload),
                                       payload.name, T),
                     key |-> Put(state.key, payload.name, keys)],
                    putValue(data, paths, Arr(defaultList)),
                    found)

\* parse(payload, { schema }) with the intent handled in place
\* (conform-zod/parse.ts:175-272, part_014:183-296); names are the names
\* the schema rejects, inPlace chooses the list case of part_014
parseInPlace(entries, marker, state, names, n, inPlace) ==
    LET resolved == resolveIntent(marker)
        result == resolved.result
        data == resolveData(entries, Obj(EmptyMap))
        submitted == IF result.t = "null"
                     THEN [state EXCEPT !.validated =
                            MarkAll(state.validated, Range(fieldsOf(entries)))]
                     ELSE state
        listed == IF result.t # "list" THEN Listed(submitted, data, Undefined)
                  ELSE IF inPlace
                  THEN listCaseOfUpdate(submitted, data, result.payload, n)
                  ELSE listCase(submitted, data, result.payload, n)
        handled == IF result.t = "validate"
                   THEN [submitted EXCEPT !.validated =
                            Put(submitted.validated, result.payload, T)]
                   ELSE listed.state
        submission == createSubmission(names, resolved.intent, handled)
    IN  IF result.t = "throw" THEN Thrown(result.message, state)
        ELSE IF listed.t = "throw" THEN Thrown(listed.message, state)
        ELSE Parsed(submission.status, submission.error, submission.state,
                    listed.data, listed.listBefore,
                    IF result.t # "null" THEN result.t
                    ELSE IF resolved.intent.t = "null" THEN "fallback"
                    ELSE "unknown",
                    IF result.t = "null" THEN <<>> ELSE result.payload)

\* ----- the state machine of a form posting to parse
\* A form posts its fields, the marker of the button that submitted it and
\* the state it received with the previous result.  The schema is any
\* function of the data: the names it rejects are chosen freely.  A list
\* field holding no value (an unchecked checkbox, an empty file input)
\* submits no entry.

\* longest list, number of keys generated
MaxList == 3
MaxGenerated == 2

Impls == {"handler", "zod", "update"}

InitialItems == {<<"x", "x">>, <<"-", "x">>}

Item(i) == NameTasks \o <<"[">> \o ToDigits(i) \o <<"]">>

\* the list as the form submits it: fields with nothing to submit leave
\* no entry
Submitted == [i \in DOMAIN listFields |->
                IF listFields[i] = "x" THEN Str(<<"x">>) ELSE Hole]

\* the entries of the FormData: the field a, then the list fields
Entries ==
    <<Entry(NameA, Str(<<"v">>))>>
        \o [j \in 1 .. Len(ObjectKeys(Submitted)) |->
              Entry(NameTasks \o <<"[">> \o ObjectKeys(Submitted)[j] \o <<"]">>,
                    Str(<<"x">>))]

\* names a schema may reject
RejectedNames == {{}, {NameA, NameB}, {NameB, Item(0)}}

FormMarkers ==
    {NoIntent, Marker(<<>>), Marker(<<"custom", "/", "x">>),
     Marker(serialize(validate, NameA)), Marker(serialize(validate, <<>>)),
     Marker(serialize(list, Replace(NameTasks, 0, Undefined))),
     Marker(serialize(list, Remove(NameTasks, 1)))}

ListIntents ==
    {Prepend(NameTasks, Undefined), AppendTo(NameTasks, Str(<<"x">>)),
     Replace(NameTasks, 0, Str(<<"x">>)), Replace(NameTasks, 5, Undefined),
     Remove(NameTasks, 0), Remove(NameTasks, 1), Remove(NameTasks, 5),
     Reorder(NameTasks, 0, 1), Reorder(NameTasks, 0, 2),
     Reorder(NameTasks, 5, 0), Remove(NameA, 0)}

ListMarkers == {Marker(serialize(list, p)) : p \in ListIntents}

parse(entries, marker, names) ==
    IF impl = "handler"
    THEN parseByHandler(entries, marker, formState, names, generated)
    ELSE parseInPlace(entries, marker, formState, names, generated,
                      impl = "update")

ListAfter(result) ==
    IF result.kind = "list"
    THEN getValue(result.data, getPaths(result.payload.name))
    ELSE Undefined

\* the fields the form renders for the list after the parse
Rendered(result) ==
    IF result.kind = "list" /\ result.payload.name = NameTasks
    THEN [i \in DOMAIN ListAfter(result).v |->
            IF ListAfter(result).v[i].t = "string" THEN "x" ELSE "-"]
    ELSE listFields

Stored(result) ==
    IF result.kind = "list" /\ result.payload.name \in DOMAIN formState.key
    THEN Arr(formState.key[result.payload.name])
    ELSE Undefined

\* the form posts its fields with the marker; the schema rejects names
Parse(marker, names) ==
    \E result \in {parse(Entries, marker, names)} :
        /\ result.kind = "list" =>
              /\ Len(ListAfter(result).v) <= MaxList
              /\ IsInsert(result.payload) => generated < MaxGenerated
        /\ formState' = result.state
        /\ listFields' = Rendered(result)
        /\ generated' = IF result.kind = "list" /\ IsInsert(result.payload)
                        THEN generated + 1 ELSE generated
        /\ parsed' = Observation(marker, <<>>, Range(fieldsOf(Entries)),
                                 names, formState.validated, Stored(result),
                                 result, ListAfter(result))
        /\ lastReport' = NotReported
        /\ UNCHANGED <<impl, computed>>
        /\ UNCHANGED registryVars

InitForm ==
    /\ store = EmptyMap
    /\ validity = [n \in Elements |-> <<>>]
    /\ nextSub = 0
    /\ last = Observed("none", <<>>, <<>>, FALSE, Quiet)
    /\ handles = {}
    /\ inflight = NoPasses
    /\ lastReport = NotReported
    /\ computed = NotComputed
    /\ impl \in Impls
    /\ formState = EmptyState
    /\ listFields \in InitialItems
    /\ generated = 0
    /\ parsed = NotParsed

\* a form validated field by field
NextForm == \E m \in FormMarkers, n \in RejectedNames : Parse(m, n)

SpecForm == InitForm /\ [][NextForm]_vars

\* ----- the parse whose submission is ready or not ready
\* the status of createSubmission(context) (part_015:43-115): ready when
\* the schema gave a value, whatever pending is; otherwise the status that
\* reject() returns
readyStatus(hasValue, pending) ==
    IF hasValue THEN "ready" ELSE IF pending THEN "updated" ELSE "failed"

\* the error map reject() returns (part_015:52-63)
rejectError(error, validated) ==
    Restrict(error, {n \in DOMAIN error : IsTrue(validated, n)})

\* createSubmission(context) (part_015:43-115) of the form resolved and
\* updated by the handler
createReadySubmission(updated, names, pending) ==
    IF updated.thrown # "none" THEN updated
    ELSE [updated EXCEPT
            !.status = readyStatus(names = {}, pending),
            !.error = IF names = {} THEN EmptyMap
                      ELSE rejectError(ErrorMap(names),
                                       updated.state.validated)]

\* the submit handler of the form (form.ts:281-311): a submission that is
\* not ready is rejected, and reported with the event prevented when the
\* cleaned error map is there; a ready one goes on to the server
intercepted(result) ==
    IF result.thrown # "none" THEN F
    ELSE IF result.status # "ready" /\ result.error # EmptyMap THEN T
    ELSE F

Ready == "ready"

\* the form posts its fields with the marker to one of the parses.  The
\* parse of part_015:141-181 resolves the form and applies the handler of
\* its intent as part_013:140-180 does, on the same package, and then
\* createSubmission decides; names are the names the schema rejects
Post(version, marker, names) ==
    \E returned \in {parse(Entries, marker, names)} :
    \E result \in {IF version = Ready
                   THEN createReadySubmission(returned, names,
                                              marker.t # "null")
                   ELSE returned} :
        /\ version = Ready => impl = "handler"
        /\ result.kind = "list" =>
              /\ Len(ListAfter(result).v) <= MaxList
              /\ IsInsert(result.payload) => generated < MaxGenerated
        /\ formState' = result.state
        /\ listFields' = Rendered(result)
        /\ generated' = IF result.kind = "list" /\ IsInsert(result.payload)
                        THEN generated + 1 ELSE generated
        /\ parsed' = Observation(marker, <<>>, Range(fieldsOf(Entries)),
                                 names, formState.validated, Stored(result),
                                 result, ListAfter(result))
        /\ computed' = [fn |-> "submit", input |-> version,
                        output |-> intercepted(result)]
        /\ lastReport' = NotReported
        /\ UNCHANGED impl
        /\ UNCHANGED registryVars

InitSubmission ==
    /\ store = EmptyMap
    /\ validity = [n \in Elements |-> <<>>]
    /\ nextSub = 0
    /\ last = Observed("none", <<>>, <<>>, FALSE, Quiet)
    /\ handles = {}
    /\ inflight = NoPasses
    /\ lastReport = NotReported
    /\ computed = NotComputed
    /\ impl \in Impls
    /\ formState = EmptyState
    /\ listFields = <<"x", "x">>
    /\ generated = 0
    /\ parsed = NotParsed

SubmissionMarkers ==
    {NoIntent, Marker(<<>>), Marker(serialize(validate, NameA)),
     Marker(serialize(list, Remove(NameTasks, 1)))}

SchemaRejects == {{}, {NameA}}

NextSubmission ==
    \E v \in {"state", Ready}, m \in SubmissionMarkers, n \in SchemaRejects :
        Post(v, m, n)

SpecSubmission == InitSubmission /\ [][NextSubmission]_vars

\* a form whose list is edited
NextList == \E m \in ListMarkers : Parse(m, {})

SpecList == InitForm /\ [][NextList]_vars

\* a form whose list is edited, served by the parse that dispatches the
\* marker to the intents
InitPreprocess == InitForm /\ impl = "handler"

PreprocessIntents ==
    {Prepend(NameTasks, Undefined), AppendTo(NameTasks, Str(<<"x">>)),
     Replace(NameTasks, 0, Str(<<"x">>)), Remove(NameTasks, 0),
     Remove(NameTasks, 5), Reorder(NameTasks, 0, 1)}

NextPreprocess ==
    \E p \in PreprocessIntents : Parse(Marker(serialize(list, p)), {})

SpecPreprocess == InitPreprocess /\ [][NextPreprocess]_vars

\* a form whose list starts empty, with no keys stored
InitEmptyList ==
    /\ store = EmptyMap
    /\ validity = [n \in Elements |-> <<>>]
    /\ nextSub = 0
    /\ last = Observed("none", <<>>, <<>>, FALSE, Quiet)
    /\ handles = {}
    /\ inflight = NoPasses
    /\ lastReport = NotReported
    /\ computed = NotComputed
    /\ impl \in Impls
    /\ formState = EmptyState
    /\ listFields = <<>>
    /\ generated = 0
    /\ parsed = NotParsed

EmptyListIntents ==
    {AppendTo(NameTasks, Str(<<"x">>)), Prepend(NameTasks, Undefined),
     Remove(NameTasks, 0), Reorder(NameTasks, 0, 1)}

NextEmptyList ==
    \E p \in EmptyListIntents : Parse(Marker(serialize(list, p)), {})

SpecEmptyList == InitEmptyList /\ [][NextEmptyList]_vars

\* a form that holds flags and default values under names that only begin
\* as the name of its list does
NameTasksExtra == <<"tasks", "Extra">>

FlaggedNames == {NameA, NameTasksExtra, Item(1), Item(10)}
FlaggedSets == {FlaggedNames, {NameTasksExtra}, {Item(1), Item(10)}}

InitFrame ==
    /\ store = EmptyMap
    /\ validity = [n \in Elements |-> <<>>]
    /\ nextSub = 0
    /\ last = Observed("none", <<>>, <<>>, FALSE, Quiet)
    /\ handles = {}
    /\ inflight = NoPasses
    /\ lastReport = NotReported
    /\ computed = NotComputed
    /\ impl \in Impls
    /\ \E flagged \in FlaggedSets :
           formState = [validated |-> [n \in flagged |-> T], key |-> EmptyMap]
    /\ listFields = <<"x", "x">>
    /\ generated = 0
    /\ parsed = NotParsed

FrameIntents ==
    {Replace(NameTasks, 1, Str(<<"x">>)), Remove(NameTasks, 1),
     Prepend(NameTasks, Undefined)}

\* the default values update() keeps of a form, for the update a list
\* intent on the list reports (registry.ts:196-210, part_014:241-245)
MergeInitialValue(names) ==
    /\ computed' = [fn |-> "mergeInitialValue",
                    input |-> [n \in names |-> "x"],
                    output |-> mergeInitialValue([n \in names |-> "x"],
                                                 ListUpdate)]
    /\ UNCHANGED <<impl, formState, listFields, generated, parsed, lastReport>>
    /\ UNCHANGED registryVars

NextFrame ==
    \/ \E p \in FrameIntents : Parse(Marker(serialize(list, p)), {})
    \/ \E names \in {{NameA, NameTasks}, {NameA, NameTasks, NameTasksExtra}} :
           MergeInitialValue(names)

SpecFrame == InitFrame /\ [][NextFrame]_vars

\* a form whose list items hold flags, and whose list is edited
ItemField(i) == Item(i) \o <<".">> \o NameA

ItemFlags ==
    {{Item(0)}, {Item(1)}, {ItemField(0)}, {ItemField(1)}, {Item(0), ItemField(1)},
     {ItemField(0), ItemField(1)}}

InitFlags ==
    /\ store = EmptyMap
    /\ validity = [n \in Elements |-> <<>>]
    /\ nextSub = 0
    /\ last = Observed("none", <<>>, <<>>, FALSE, Quiet)
    /\ handles = {}
    /\ inflight = NoPasses
    /\ lastReport = NotReported
    /\ computed = NotComputed
    /\ impl \in Impls
    /\ \E flagged \in ItemFlags :
           formState = [validated |-> [n \in flagged |-> T], key |-> EmptyMap]
    /\ listFields = <<"x", "x">>
    /\ generated = 0
    /\ parsed = NotParsed

FlagsIntents ==
    {Prepend(NameTasks, Undefined), Remove(NameTasks, 0),
     Reorder(NameTasks, 0, 1)}

NextFlags == \E p \in FlagsIntents : Parse(Marker(serialize(list, p)), {})

SpecFlags == InitFlags /\ [][NextFlags]_vars

\* ----- the report of a submission
\* the result a submission reports (part_013:68-73,
\* conform-zod/parse.ts:131-138, part_014:137-142); the value payload
\* (initialValue, payload) is the flattened data
SubmissionResult(data, error, state) ==
    [value |-> [t |-> "map", of |-> data], error |-> error, state |-> state]

\* the result that clears the form
Cleared ==
    [value |-> [t |-> "null"], error |-> EmptyMap, state |-> EmptyState]

\* options?.resetForm
ReportOptions ==
    {[t |-> "absent"], [t |-> "options", resetForm |-> "undefined"],
     [t |-> "options", resetForm |-> T]}

ResetForm(options) == options.t = "options" /\ options.resetForm = T

\* mutant of report: the reset result keeps the state of the submission
report_keepState(result, options) ==
    IF ResetForm(options)
    THEN [result EXCEPT !.value = [t |-> "null"], !.error = EmptyMap]
    ELSE result

\* report(result, options) (part_013:37-54, conform-zod/parse.ts:93-110,
\* part_014:101-117)
report(result, options) == IF ResetForm(options) THEN Cleared ELSE result

\* submission.report(options) of the submission the last parse returned
Report(options) ==
    /\ parsed.thrown = "none"
    /\ lastReport' =
          [called |-> TRUE, options |-> options, status |-> parsed.status,
           computed |-> SubmissionResult(parsed.data, ErrorMap(parsed.error),
                                         formState),
           result |-> report(SubmissionResult(parsed.data,
                                              ErrorMap(parsed.error),
                                              formState), options)]
    /\ UNCHANGED <<impl, formState, listFields, generated, parsed, computed>>
    /\ UNCHANGED registryVars

\* a form with nested fields whose submissions are reported
Nested(i) == Item(i) \o <<".", "b">>

ReportMarkers ==
    {NoIntent,
     Marker(serialize(list, Replace(NameTasks, 0, Undefined))),
     Marker(serialize(list, Remove(NameTasks, 0)))}

ReportNames == {{}, {NameA, Nested(0), Nested(1)}}

NextReport ==
    \/ \E m \in ReportMarkers, n \in ReportNames : Parse(m, n)
    \/ \E o \in ReportOptions : Report(o)

InitReport == InitForm /\ listFields = <<"x", "x">>

SpecReport == InitReport /\ [][NextReport]_vars

\* ----- the dispatch of a marker to the registered intents
Registrations ==
    {<<validate, list>>, <<list, validate>>, <<custom, validate, list>>}

DispatchNames == {NameA, NameB, NameTasks, Item(0), <<>>}

\* what the built-in intents serialize
BuiltIn ==
    {serialize(validate, n) : n \in DispatchNames}
    \cup {serialize(list, p) : p \in ListPayloads}

DispatchMarkers ==
    {Marker(m) : m \in BuiltIn}
    \cup {Marker(<<>>), Marker(<<"submit">>), Marker(<<"custom", "/", "x">>),
          Marker(<<"list", "/", "{">>)}

Dispatched(handler) ==
    IF handler.t = "throw" THEN Thrown(handler.message, formState)
    ELSE Parsed("none", EmptyMap, formState, handler.data, Undefined,
                handler.kind, handler.payload)

\* getIntentHandler(form, intents) is called for the form's fields
Dispatch(marker, intents) ==
    /\ parsed' = Observation(marker, intents, Range(fieldsOf(Entries)), {},
                    formState.validated, Undefined,
                    Dispatched(getIntentHandler(
                        resolve(Entries, marker, formState), intents)),
                    Undefined)
    /\ UNCHANGED <<impl, formState, listFields, generated, lastReport,
                   computed>>
    /\ UNCHANGED registryVars

NextDispatch ==
    \E m \in DispatchMarkers, r \in Registrations : Dispatch(m, r)

InitDispatch ==
    /\ InitForm
    /\ impl = "handler"
    /\ listFields = <<"x", "x">>

SpecDispatch == InitDispatch /\ [][NextDispatch]_vars

\* =====================================================================
\* Part III: the life of a form: the registry that removes forms
\*   (unnamed/part_007), the invariants of the handle
\*   (packages/conform-dom/registry.ts) and the validators a view passes
\* =====================================================================

\* document.forms.namedItem(formId): the form element, or null once the
\* view has torn the form down
Documents == {"mounted", "torn down"}

\* getForm(formId) (registry.ts:47-51)
getForm(st, formId) ==
    IF formId \in DOMAIN st THEN Ok(st[formId])
    ELSE Throw("Form does not exist")

\* getFormElement(formId) (registry.ts:53-57)
getFormElement(doc) ==
    IF doc = "mounted" THEN Ok("form") ELSE Throw("Form does not exist")

Threw == [Quiet EXCEPT !.threw = TRUE]

\* the fields of a form whose tasks field is a text input
PostedFields ==
    <<Entry(NameA, Str(<<"v">>)), Entry(NameTasks, Str(<<"v">>))>>

PostedValue == MapPayload([n \in {NameA, NameTasks} |-> "v"])

\* the __state__ field, rendered from the store
PostedState(st) ==
    IF FormId \in DOMAIN st
    THEN [validated |-> st[FormId].state.validated,
          key |-> st[FormId].state.list]
    ELSE EmptyState

\* what the validator hands back for the parse r: its throw, or the
\* Submission whose report() is the result of r
returned(r) ==
    IF r.thrown # "none" THEN [kind |-> "throws", error |-> r.thrown]
    ELSE [kind |-> "returns",
          submission |->
              Submission(r.status,
                         Result(PostedValue, r.error, r.state.validated,
                                r.state.key, NoUpdate))]

\* onValidate: ({ formData }) => parse(formData, { schema }), the schema
\* rejecting names
onValidate(validator, st) ==
    returned(parseByHandler(PostedFields, validator.marker, PostedState(st),
                            validator.names, 0))

\* what the try block of submit meets (registry.ts:111-131): the validator
\* throws, or returns a Submission, or returns a Promise, whose report is
\* not a function (registry.ts:27)
tried(validator, st) ==
    IF validator.kind = "parses" THEN onValidate(validator, st)
    ELSE IF validator.kind = "promise"
    THEN [kind |-> "throws", error |-> "TypeError"]
    ELSE validator

\* the body of submit once the form element is found (registry.ts:99-138),
\* met being what the try block meets
submitted(st, v, met) ==
    IF /\ met.kind = "returns"
       /\ shouldPreventDefault(met.submission)
       /\ getForm(st, FormId).t = "throw"
    THEN \* this.update(result) throws inside the try block
         Outcome(st, v, [Quiet EXCEPT !.returned = "plain"])
    ELSE submit(st, v, met)

\* handle.submit(event, { onValidate }) (registry.ts:85-139)
handle_submit(st, v, doc, event, validator) ==
    IF getFormElement(doc).t = "throw" \/ event.target # "form"
    THEN Outcome(st, v, Threw)
    ELSE submitted(st, v, tried(validator, st))

\* handle.update(result) (registry.ts:140-244)
handle_update(st, v, doc, result) ==
    IF getForm(st, FormId).t = "throw" \/ getFormElement(doc).t = "throw"
    THEN Outcome(st, v, Threw)
    ELSE update(st, v, result)

\* mutant of handlerData: the handler is told the field is not validated
handlerData_unvalidated(form, event) ==
    [type |-> event.type, element |-> event.target, validated |-> F]

\* what handleEvent hands to the handler (registry.ts:266-271): validated
\* is form.state.validated?.[element.name] ?? false
handlerData(form, event) ==
    [type |-> event.type, element |-> event.target,
     validated |-> IF IsUndefined(form.state.validated, event.target.name)
                   THEN F
                   ELSE form.state.validated[event.target.name]]

\* handle.handleEvent(event, handler) (registry.ts:245-273)
handle_handleEvent(st, v, doc, event) ==
    IF getForm(st, FormId).t = "throw" \/ getFormElement(doc).t = "throw"
    THEN Outcome(st, v, Threw)
    ELSE IF \/ event.target.kind # "field"
            \/ event.target.form # "form"
            \/ event.target.name = <<>>
            \/ event.defaultPrevented
    THEN Outcome(st, v, Quiet)
    ELSE Outcome(st, v, [Quiet EXCEPT
                            !.returned = "handled",
                            !.handlerArg = <<handlerData(st[FormId], event)>>])

\* handle.reset(event, updatedAttributes?) (registry.ts:274-303)
handle_reset(st, v, doc, event, updatedAttributes) ==
    IF getFormElement(doc).t = "throw" THEN Outcome(st, v, Threw)
    ELSE IF ignored(event)
    THEN Outcome(st, v, Quiet)
    ELSE IF getForm(st, FormId).t = "throw" THEN Outcome(st, v, Threw)
    ELSE reset(st, v, event, updatedAttributes)

\* ----- inputs
SubmitEvent == [type |-> "submit", target |-> "form", defaultPrevented |-> FALSE]

SubmitEvents == {SubmitEvent, [SubmitEvent EXCEPT !.target = "other"]}

\* the target of a field event: a field element or another element, of
\* this form or of a foreign one, with its name
Target(kind, form, name) == [kind |-> kind, form |-> form, name |-> name]

FieldTargets ==
    {Target("field", "form", NameA), Target("field", "form", NameB),
     Target("field", "form", <<>>), Target("field", "foreign", NameA),
     Target("element", "form", NameA)}

FieldEvents ==
    {[type |-> "input", target |-> t, defaultPrevented |-> FALSE] :
        t \in FieldTargets}
    \cup {[type |-> "input", target |-> Target("field", "form", NameA),
           defaultPrevented |-> TRUE]}

ClientMarkers ==
    {NoIntent, Marker(serialize(validate, NameA)),
     Marker(<<"custom", "/", "x">>),
     Marker(serialize(list, AppendTo(NameTasks, Undefined)))}

LifeSubmissions ==
    {Submission("accepted", CleanResult), Submission("rejected", FailedResult)}

LifeValidators ==
    {[kind |-> "absent"], [kind |-> "throws"]}
        \cup {[kind |-> "returns", submission |-> sub] : sub \in LifeSubmissions}
        \cup {[kind |-> "promise", submission |-> sub] : sub \in LifeSubmissions}
        \cup {[kind |-> "parses", marker |-> m, names |-> n] :
                m \in ClientMarkers, n \in {{NameA}}}

LifeResults == {ResetResult, FailedResult, ListResult}

\* ----- the state machine
Input(doc, event, arg) == [doc |-> doc, event |-> event, arg |-> arg]

Call(op, input, r) ==
    /\ store' = r.store
    /\ validity' = r.validity
    /\ last' = Observed(op, input,
                        IF FormId \in DOMAIN store
                        THEN store[FormId].subscribers ELSE <<>>,
                        FormId \in DOMAIN store /\ Dirty(store[FormId]),
                        r.obs)
    /\ UNCHANGED <<nextSub, handles, inflight>>
    /\ UNCHANGED formVars

\* add(formId, attributes) (part_007:141-163)
Register(attributes) ==
    IF FormId \in DOMAIN store
    THEN Call("add", Input("mounted", <<>>, attributes),
              Outcome(store, validity, Threw))
    ELSE Add(attributes, [t |-> "absent"])

\* remove(formId) (part_007:392-399)
RemoveForm ==
    /\ store' = [id \in (DOMAIN store) \ {FormId} |-> store[id]]
    /\ last' = Observed("remove", <<>>, <<>>, FALSE, Quiet)
    /\ UNCHANGED <<validity, nextSub, handles, inflight>>
    /\ UNCHANGED formVars

\* getForm(formId) (registry.ts:307-309)
GetForm ==
    Call("getForm", Input("mounted", <<>>, <<>>),
         Outcome(store, validity,
                 IF getForm(store, FormId).t = "throw" THEN Threw
                 ELSE [Quiet EXCEPT !.returned = "form"]))

\* subscribe(formId, callback, shouldNotify) (registry.ts:310-324)
SubscribeTo(callback, pred) ==
    IF getForm(store, FormId).t = "throw"
    THEN Call("subscribe", Input("mounted", <<>>, <<>>),
              Outcome(store, validity, Threw))
    ELSE Subscribe(callback, pred)

\* the disposer returned by subscribe (registry.ts:326-333)
Dispose(id) ==
    IF getForm(store, FormId).t = "throw"
    THEN /\ id < nextSub
         /\ Call("unsubscribe", Input("mounted", <<>>, id),
                 Outcome(store, validity, Threw))
    ELSE Unsubscribe(id)

HandleSubmit(doc, event, validator) ==
    /\ FormId \in handles
    /\ Call("submit", Input(doc, event, validator),
            handle_submit(store, validity, doc, event, validator))

HandleUpdate(doc, result) ==
    /\ FormId \in handles
    /\ Call("update", Input(doc, <<>>, result),
            handle_update(store, validity, doc, result))

HandleEvent(doc, event) ==
    /\ FormId \in handles
    /\ Call("handleEvent", Input(doc, event, <<>>),
            handle_handleEvent(store, validity, doc, event))

HandleReset(doc, event) ==
    /\ FormId \in handles
    /\ Call("reset", Input(doc, event, NoAttributes),
            handle_reset(store, validity, doc, event, NoAttributes))

NextLife ==
    \/ \E a \in AttributesSet : Register(a)
    \/ RemoveForm
    \/ GetForm
    \/ \E c \in Callbacks, p \in Predicates : SubscribeTo(c, p)
    \/ \E id \in 0 .. (MaxSubscriptions - 1) : Dispose(id)
    \/ \E d \in Documents, e \in SubmitEvents, v \in LifeValidators :
          HandleSubmit(d, e, v)
    \/ \E d \in Documents, r \in LifeResults : HandleUpdate(d, r)
    \/ \E d \in Documents, e \in FieldEvents : HandleEvent(d, e)
    \/ \E d \in Documents, e \in ResetEvents : HandleReset(d, e)

SpecLife == Init /\ [][NextLife]_vars

\* ----- the field events of a form whose state results change
EventResults == {FailedResult, UndefinedResult, ListResult}

NextEvents ==
    \/ \E a \in AttributesSet : Register(a)
    \/ RemoveForm
    \/ \E d \in Documents, r \in EventResults : HandleUpdate(d, r)
    \/ \E d \in Documents, e \in FieldEvents : HandleEvent(d, e)

SpecEvents == Init /\ [][NextEvents]_vars

\* ----- results that differ from the store in any of the three maps
DiffErrors == {EmptyMap, [n \in {NameA} |-> <<M1>>]}

DiffFlags ==
    {EmptyMap, [n \in {NameA} |-> T], [n \in {NameA} |-> F],
     [n \in {NameA, NameB} |-> T]}

DiffKeys ==
    {EmptyMap, [n \in {NameTasks} |-> <<"0">>],
     [n \in {NameTasks} |-> <<"0", "k1">>]}

DiffResults ==
    {Result(SubmittedA, error, validated, keys, NoUpdate) :
        error \in DiffErrors, validated \in DiffFlags, keys \in DiffKeys}

NextDiff ==
    \/ \E a \in AttributesSet : Add(a, [t |-> "absent"])
    \/ \E r \in DiffResults : Update(r)

SpecDiff == Init /\ [][NextDiff]_vars

\* ----- results of a schema whose checks are skipped
SkipErrors ==
    {EmptyMap,
     [n \in {NameA} |-> <<M1>>],
     [n \in {NameA} |-> <<skippedPrefix \o M1>>],
     [n \in {NameA} |-> <<M1, M2>>],
     [n \in {NameA} |-> <<skippedPrefix \o M1, M2>>],
     [n \in {NameA} |-> <<M1, skippedPrefix \o M2>>],
     [n \in {NameA, NameB} |-> <<skippedPrefix \o M2>>]}

SkipFlags == {EmptyMap, [n \in {NameA} |-> T]}

SkipResults ==
    {Result(SubmittedA, error, validated, EmptyMap, NoUpdate) :
        error \in SkipErrors, validated \in SkipFlags}

NextSkipped ==
    \/ \E a \in AttributesSet : Add(a, [t |-> "absent"])
    \/ \E r \in SkipResults : Update(r)

SpecSkipped == Init /\ [][NextSkipped]_vars

\* ----- callbacks that call a disposer while a pass is under way
\* A callback is a render, or calls the disposer of the subscription 0 or 1
\* before it returns (registry.ts:326-333).
PassCallbacks == {"render", "dispose0", "dispose1"}

Disposes(callback) ==
    IF callback = "dispose0" THEN {0}
    ELSE IF callback = "dispose1" THEN {1} ELSE {}

\* the callbacks of a pass run one after the other, in the order the pass
\* calls them (registry.ts:229-236, 299-302): the subscribers the store is
\* left with, the subscriptions disposed of so far, and the subscriptions
\* called after their disposer had returned
RECURSIVE runCallbacks(_, _, _, _, _)
runCallbacks(calls, registered, subscribers, disposed, late) ==
    IF calls = <<>>
    THEN [subscribers |-> subscribers, disposed |-> disposed, late |-> late]
    ELSE LET own == CHOOSE sub \in Range(registered) : sub.id = calls[1]
             targets == {k \in Disposes(own.callback) :
                            \E sub \in Range(registered) : sub.id = k}
         IN  runCallbacks(
                 Tail(calls), registered,
                 SelectSeq(subscribers, LAMBDA sub : sub.id \notin targets),
                 disposed \cup targets,
                 late \cup ({calls[1]} \cap disposed))

\* a pass of update(result) or reset(event) together with what its
\* callbacks do
Notified(op, input, r) ==
    LET ran == runCallbacks(r.obs.calls, store[FormId].subscribers,
                            r.store[FormId].subscribers, {}, {})
    IN  /\ store' = [r.store EXCEPT ![FormId].subscribers = ran.subscribers]
        /\ validity' = r.validity
        /\ last' = Observed(op, input, store[FormId].subscribers,
                            Dirty(store[FormId]), r.obs)
        /\ computed' = [fn |-> "pass", calls |-> r.obs.calls,
                        disposed |-> ran.disposed, late |-> ran.late]
        /\ UNCHANGED <<nextSub, handles, inflight>>
        /\ UNCHANGED <<impl, formState, listFields, generated, parsed,
                       lastReport>>

UpdatePass(result) ==
    /\ FormId \in DOMAIN store
    /\ Notified("update", result, update(store, validity, result))

ResetPass ==
    /\ FormId \in DOMAIN store
    /\ Notified("reset", [event |-> GenuineReset, attributes |-> NoAttributes],
            reset(store, validity, GenuineReset, NoAttributes))

PassResults == {CleanResult, FailedResult, ListResult}

NextPass ==
    \/ \E a \in AttributesSet : Add(a, [t |-> "absent"])
    \/ \E c \in PassCallbacks, p \in Predicates : Subscribe(c, p)
    \/ \E r \in PassResults : UpdatePass(r)
    \/ ResetPass

SpecPass == Init /\ [][NextPass]_vars

\* ----- validation passes answered later
\* A submit that is not intercepted posts the form; the result of that pass
\* comes back as lastResult and the view hands it to update()
\* (packages/conform-react/hooks.ts:221-229), whatever was issued or
\* applied in between.

\* passes issued in one run
MaxPasses == 3

RaceResults == {CleanResult, FailedResult, SkippedResult, UndefinedResult}

Pass(seq, result) == [seq |-> seq, result |-> result]

\* mutant of settle: a result older than one already applied is dropped
settle_guarded(st, v, pass, applied) ==
    IF pass.seq < applied
    THEN Outcome(st, v, [Quiet EXCEPT !.updateArg = <<pass.result>>])
    ELSE update(st, v, pass.result)

\* form.update(config.lastResult) (hooks.ts:221-229)
settle(st, v, pass, applied) == update(st, v, pass.result)

\* a pass is issued: submit() lets the form post (registry.ts:85-139), the
\* validation of the posted payload will produce result
Issue(result) ==
    /\ FormId \in DOMAIN store
    /\ inflight.issued < MaxPasses
    /\ inflight' = [inflight EXCEPT
                      !.issued = @ + 1,
                      !.waiting = Append(@, Pass(inflight.issued + 1, result))]
    /\ last' = Observed("issue", result, store[FormId].subscribers,
                        Dirty(store[FormId]),
                        [Quiet EXCEPT !.returned = "plain"])
    /\ UNCHANGED <<store, validity, nextSub, handles>>
    /\ UNCHANGED formVars

\* the result of the k-th waiting pass arrives
Settle(k) ==
    /\ FormId \in DOMAIN store
    /\ k \in DOMAIN inflight.waiting
    /\ \E r \in {settle(store, validity, inflight.waiting[k],
                        inflight.applied)} :
          /\ store' = r.store
          /\ validity' = r.validity
          /\ last' = Observed("settle", inflight.waiting[k],
                              store[FormId].subscribers,
                              Dirty(store[FormId]), r.obs)
    /\ inflight' = [inflight EXCEPT
                      !.applied = Max(@, inflight.waiting[k].seq),
                      !.waiting = Except(@, k)]
    /\ UNCHANGED <<nextSub, handles>>
    /\ UNCHANGED formVars

NextRace ==
    \/ \E a \in AttributesSet : Add(a, [t |-> "absent"])
    \/ \E r \in RaceResults : Issue(r)
    \/ \E k \in 1 .. MaxPasses : Settle(k)

SpecRace == Init /\ [][NextRace]_vars

\* =====================================================================
\* Part IV.  The functions of names and of value trees, applied to inputs
\* drawn from bounded sets
\* =====================================================================

\* longest path of a name
MaxDepth == 3

\* the segments and the indices names are built from
Segments == {NameA, <<"t", "a">>}
Positions == {0, 1, 10}

PathParts == {Key(seg) : seg \in Segments} \cup {Index(n) : n \in Positions}

PathsUpTo(depth) == UNION {[1 .. k -> PathParts] : k \in 0 .. depth}

\* the well-formed name of a path: segments separated by '.', indices
\* written '[n]'
RECURSIVE WellFormed(_, _)
WellFormed(paths, first) ==
    IF paths = <<>> THEN <<>>
    ELSE (IF paths[1].k = "number"
          THEN <<"[">> \o ToDigits(paths[1].n) \o <<"]">>
          ELSE IF first THEN paths[1].s
          ELSE <<".">> \o paths[1].s)
            \o WellFormed(Tail(paths), FALSE)

WellFormedNames == {WellFormed(paths, TRUE) : paths \in PathsUpTo(MaxDepth)}

\* formatPaths(getPaths(name))
RoundTrip(name) ==
    /\ computed' = [fn |-> "formatPaths", input |-> name,
                    paths |-> getPaths(name),
                    output |-> formatPaths(getPaths(name))]
    /\ UNCHANGED <<impl, formState, listFields, generated, parsed, lastReport>>
    /\ UNCHANGED registryVars

NextPaths == \E name \in WellFormedNames : RoundTrip(name)

SpecPaths == Init /\ [][NextPaths]_vars

\* ----- flatten (formdata.ts:110-221, util.ts:12-71)
Null == [t |-> "null"]

\* Object.entries(obj): the keys, in the order the inputs list them
ObjectEntries(props) ==
    LET desc == sortDesc(DOMAIN props)
    IN  [i \in 1 .. Len(desc) |-> desc[Len(desc) + 1 - i]]

\* `${prefix}.${key}`, or the key alone under an empty prefix
Member(prefix, key) ==
    IF prefix # <<>> THEN prefix \o <<".">> \o key ELSE key

Element(prefix, i) == prefix \o <<"[">> \o ToDigits(i - 1) \o <<"]">>

\* cleanup(value) (formdata.ts:110-154)
RECURSIVE cleanup(_)
cleanup(value) ==
    IF value.t = "object"
    THEN LET kept == {k \in DOMAIN value.v :
                         cleanup(value.v[k]).t # "undefined"}
         IN  IF kept = {} THEN Undefined
             ELSE Obj([k \in kept |-> cleanup(value.v[k])])
    ELSE IF value.t = "array"
    THEN IF value.v = <<>> THEN Undefined
         ELSE Arr([i \in DOMAIN value.v |->
                      IF value.v[i].t = "hole" THEN Hole
                      ELSE cleanup(value.v[i])])
    ELSE IF value.t = "null" THEN Undefined
    ELSE value

\* setResult(data, name) with the default resolve (formdata.ts:166-172)
setResult(result, data, name) ==
    IF cleanup(data).t # "null"
    THEN Put(result, name, cleanup(data))
    ELSE result

\* a member still to be visited: its value and its name
Visit(value, name) ==
    [name |-> name, value |-> IF value.t = "hole" THEN Undefined ELSE value]

\* the members of an object and the items of an array, in the order the
\* loops of formdata.ts:179-189 and 195-206 take them
Members(value, prefix) ==
    IF value.t = "object"
    THEN LET keys == ObjectEntries(value.v)
         IN  [i \in DOMAIN keys |->
                 Visit(value.v[keys[i]], Member(prefix, keys[i]))]
    ELSE IF value.t = "array"
    THEN [i \in DOMAIN value.v |-> Visit(value.v[i], Element(prefix, i))]
    ELSE <<>>

\* processObject(obj, prefix) and processArray(array, prefix)
\* (formdata.ts:174-207) on the members still to visit, first to last: each
\* one is written by setResult, a container before its own members
RECURSIVE process(_, _)
process(result, todo) ==
    IF todo = <<>> THEN result
    ELSE process(setResult(result, todo[1].value, todo[1].name),
                 Members(todo[1].value, todo[1].name) \o Tail(todo))

\* flatten(data) of formdata.ts with no options (formdata.ts:156-221)
flatten(data) ==
    IF data.t \in {"array", "object"}
    THEN process(EmptyMap, <<Visit(data, <<>>)>>)
    ELSE EmptyMap

\* what the older flatten writes for one member (util.ts:22-35, 40-43,
\* 48-61): a scalar under its name, an array of strings as a whole, an
\* object nothing
written(result, value, name) ==
    IF value.t = "object" THEN result
    ELSE IF value.t = "array"
    THEN IF \A i \in DOMAIN value.v : value.v[i].t = "string"
         THEN Put(result, name, value)
         ELSE result
    ELSE Put(result, name, value)

\* processObject(obj, prefix) and processArray(array, prefix) of
\* util.ts:18-63 on the members still to visit
RECURSIVE process_util(_, _)
process_util(result, todo) ==
    IF todo = <<>> THEN result
    ELSE process_util(written(result, todo[1].value, todo[1].name),
                      Members(todo[1].value, todo[1].name) \o Tail(todo))

\* flatten(data) of util.ts with the default prefix (util.ts:12-71)
flatten_util(data) == process_util(EmptyMap, <<Visit(data, <<>>)>>)

FlattenVersions == {"formdata", "util"}

\* the keys and the scalars flat maps are built from
FlatKeys == {NameA, NameB, <<>>}
ScalarChoices == 1 .. 4

Scalar(i) ==
    CASE i = 1 -> Str(<<"x">>)
      [] i = 2 -> Str(<<>>)
      [] i = 3 -> Num(0)
      [] OTHER -> Bool(T)

\* the flat map that has the chosen scalar under each key
FlatMap(choice) == Obj([k \in DOMAIN choice |-> Scalar(choice[k])])

NestedChoices == 1 .. 4

NestedMap(i) ==
    CASE i = 1 -> Obj(NameA :> Obj(NameB :> Str(<<"x">>)))
      [] i = 2 -> Obj(NameA :> Arr(<<Str(<<"x">>), Str(<<>>)>>))
      [] i = 3 -> Obj(NameA :> Arr(<<Num(0)>>) @@ NameB :> Null)
      [] OTHER -> Obj(NameA :> Arr(<<>>))

\* flatten(data), by either version
Flatten(version, data) ==
    /\ computed' = [fn |-> "flatten", input |-> data,
                    output |-> IF version = "formdata" THEN flatten(data)
                               ELSE flatten_util(data),
                    version |-> version]
    /\ UNCHANGED <<impl, formState, listFields, generated, parsed, lastReport>>
    /\ UNCHANGED registryVars

NextFlatten ==
    \E version \in FlattenVersions :
        \/ \E keys \in SUBSET FlatKeys :
               \E choice \in [keys -> ScalarChoices] :
                   Flatten(version, FlatMap(choice))
        \/ \E i \in NestedChoices : Flatten(version, NestedMap(i))

SpecFlatten == Init /\ [][NextFlatten]_vars

\* ----- resolving payloads in which a name occurs several times
MaxEntries == 3

EntryNames == {NameA, NameB}
EntryTexts == {<<>>, <<"x">>, <<"y">>}

\* the entries of a payload: names and texts, one by one
PayloadEntries(names, texts) ==
    [i \in DOMAIN names |-> Entry(names[i], Str(texts[i]))]

\* the loop of resolve(payload) on the entries of a payload
Resolve(entries) ==
    /\ computed' = [fn |-> "resolve", input |-> entries,
                    output |-> resolveData(entries, Obj(EmptyMap))]
    /\ UNCHANGED <<impl, formState, listFields, generated, parsed, lastReport>>
    /\ UNCHANGED registryVars

NextResolve ==
    \E k \in 0 .. MaxEntries :
        \E names \in [1 .. k -> EntryNames], texts \in [1 .. k -> EntryTexts] :
            Resolve(PayloadEntries(names, texts))

SpecResolve == Init /\ [][NextResolve]_vars

\* ----- payloads with any number of intent entries
MaxIntents == 3

IntentChoices == 1 .. 5

IntentEntry(i) ==
    CASE i = 1 -> Str(<<"validate", "/", "a">>)
      [] i = 2 -> Str(<<"validate", "/", "b">>)
      [] i = 3 -> Str(<<>>)
      [] i = 4 -> Str(<<"submit">>)
      [] OTHER -> File

\* getIntent(payload) of a payload with the chosen intent entries
GetIntent(choice) ==
    /\ computed' = [fn |-> "getIntent",
                    input |-> [i \in DOMAIN choice |-> IntentEntry(choice[i])],
                    output |-> getIntent([i \in DOMAIN choice |->
                                             IntentEntry(choice[i])])]
    /\ UNCHANGED <<impl, formState, listFields, generated, parsed, lastReport>>
    /\ UNCHANGED registryVars

NextIntents ==
    \E k \in 0 .. MaxIntents :
        \E choice \in [1 .. k -> IntentChoices] : GetIntent(choice)

SpecIntents == Init /\ [][NextIntents]_vars

\* ----- the texts of the built-in intents, written and read back
CodecNames == {NameA, <<>>, <<"a", "/", "b">>, <<"list">>, Item(0)}

\* texts no built-in intent has written: without a '/', or with another
\* type before it
ForeignTexts ==
    {<<>>, <<"validate">>, <<"list">>, <<"submit">>, <<"{", "}">>,
     <<"custom", "/", "x">>, <<"/", "a">>, <<"submit", "/", "list", "/", "{">>}

\* intent.serialize(payload), and intent.deserialize of what it wrote
Encode(intent, payload) ==
    /\ computed' = [fn |-> "serialize", input |-> payload,
                    intent |-> intent,
                    output |-> deserialize(intent, serialize(intent, payload)),
                    text |-> serialize(intent, payload)]
    /\ UNCHANGED <<impl, formState, listFields, generated, parsed, lastReport>>
    /\ UNCHANGED registryVars

\* intent.deserialize(serializedIntent) of a text
Decode(intent, text) ==
    /\ computed' = [fn |-> "deserialize", input |-> text,
                    intent |-> intent,
                    output |-> deserialize(intent, text)]
    /\ UNCHANGED <<impl, formState, listFields, generated, parsed, lastReport>>
    /\ UNCHANGED registryVars

NextCodec ==
    \/ \E name \in CodecNames : Encode(validate, name)
    \/ \E payload \in ListPayloads : Encode(list, payload)
    \/ \E name \in CodecNames : Decode(list, serialize(validate, name))
    \/ \E payload \in ListPayloads : Decode(validate, serialize(list, payload))
    \/ \E text \in ForeignTexts : Decode(validate, text) \/ Decode(list, text)

SpecCodec == Init /\ [][NextCodec]_vars

\* =====================================================================
\* Properties of the registry
\* =====================================================================

Count(seq, x) == Cardinality({i \in DOMAIN seq : seq[i] = x})

Accepted(sub, updates) ==
    {j \in DOMAIN updates : shouldNotify(sub, updates[j])}

\* C1: in one update() call that produces at least one Update record, a
\* subscriber registered at the start of the call is invoked exactly once
\* when its shouldNotify accepts at least one record, and not at all when it
\* accepts none.
C1_NotifyExactlyOnce ==
    (last.op = "update" /\ Len(last.obs.updates) > 0) =>
        \A i \in DOMAIN last.subscribers :
            Count(last.obs.calls, last.subscribers[i].id) =
                IF Accepted(last.subscribers[i], last.obs.updates) # {}
                THEN 1 ELSE 0

C1_Witness ==
    /\ last.op = "update"
    /\ \E i, j \in DOMAIN last.subscribers :
          /\ Cardinality(Accepted(last.subscribers[i], last.obs.updates)) >= 2
          /\ Count(last.obs.calls, last.subscribers[i].id) = 1
          /\ Len(last.obs.updates) > 0
          /\ Accepted(last.subscribers[j], last.obs.updates) = {}
          /\ Count(last.obs.calls, last.subscribers[j].id) = 0

IsGenuineReset(obs) == obs.op = "reset" /\ obs.input.event = GenuineReset

\* C2: whatever calls came before, handling a genuine reset event leaves
\* the store entry with error = {}, validated = {}, list = {} and
\* initialValue equal to the defaultValue of the updated attributes when
\* given, otherwise of the attributes stored before the event.
C2_ResetClearsEverything ==
    [][IsGenuineReset(last') =>
        LET form == store'[FormId]
            given == last'.input.attributes
        IN  /\ form.error = EmptyMap
            /\ form.state.validated = EmptyMap
            /\ form.state.list = EmptyMap
            /\ form.initialValue =
                  IF given.t = "given" THEN given.v.defaultValue
                  ELSE store[FormId].attributes.defaultValue]_vars

C2_Witness ==
    /\ IsGenuineReset(last)
    /\ last.dirty
    /\ last.input.attributes.t = "given"
    /\ store[FormId].initialValue = last.input.attributes.v.defaultValue
    /\ store[FormId].state.validated = EmptyMap

Messages(error) == UNION {Range(error[n]) : n \in DOMAIN error}

Conclusive(submission) ==
    /\ submission.state \in {"rejected", "pending"}
    /\ \A m \in Messages(submission.report.error) :
          Len(m) = 0 \/ <<Head(m)>> # undefinedPrefix

\* C3: submit prevents the default and passes submission.report() to
\* update() exactly when the Submission is not accepted and no reported
\* message starts with '[VALIDATION_UNDEFINED] '; in every other case the
\* store is unchanged and the default is not prevented.
C3_InterceptIffConclusive ==
    [][last'.op = "submit" =>
        IF last'.input.kind = "returns" /\ Conclusive(last'.input.submission)
        THEN /\ last'.obs.prevented
             /\ last'.obs.updateArg = <<last'.input.submission.report>>
             /\ store' = update(store, validity,
                                last'.input.submission.report).store
        ELSE /\ ~last'.obs.prevented
             /\ last'.obs.updateArg = <<>>
             /\ store' = store]_vars

C3_Witness ==
    /\ last.op = "submit"
    /\ last.input.kind = "returns"
    /\ last.input.submission.state = "rejected"
    /\ last.obs.prevented
    /\ last.obs.wrote
    /\ store[FormId].error = last.input.submission.report.error

C3_WitnessNotIntercepted ==
    /\ last.op = "submit"
    /\ last.input.kind = "returns"
    /\ last.input.submission.state = "rejected"
    /\ ~last.obs.prevented

\* C4: when onValidate throws, submit does not throw, does not prevent the
\* default, leaves the store unchanged, notifies no subscriber and returns
\* the plain result, without a submission.
C4_ValidatorThrows ==
    [][(last'.op = "submit" /\ last'.input.kind = "throws") =>
        /\ ~last'.obs.threw
        /\ ~last'.obs.prevented
        /\ store' = store
        /\ validity' = validity
        /\ last'.obs.calls = <<>>
        /\ last'.obs.returned = "plain"]_vars

C4_Witness ==
    /\ last.op = "submit"
    /\ last.input.kind = "throws"
    /\ last.obs.returned = "plain"
    /\ last.subscribers # <<>>
    /\ last.dirty

\* the place of a subscription in the order of registration
Registered(subscribers, id) ==
    CHOOSE i \in DOMAIN subscribers : subscribers[i].id = id

\* C14: the callbacks one update() call invokes run in the order in which
\* their subscriptions were registered, whichever Update record each one
\* accepts.
C14_RegistrationOrder ==
    last.op = "update" =>
        \A i, j \in DOMAIN last.obs.calls :
            i < j => Registered(last.subscribers, last.obs.calls[i])
                        < Registered(last.subscribers, last.obs.calls[j])

Ids(subscribers) == {subscribers[i].id : i \in DOMAIN subscribers}

ResetSignalled(obs) ==
    /\ obs.op \in {"update", "submit"}
    /\ Len(obs.obs.updateArg) = 1
    /\ obs.obs.updateArg[1].payload.t = "null"

ParsedIntent == parsed.thrown = "none" /\ parsed.marker.t = "string"

ValidatedAfter(name) == IsTrue(formState.validated, name)

\* C5: the error map reported for a submission driven by an intent holds a
\* name only if that name is validated after the intent was handled; a
\* validate intent on a, with a and b rejected and b not validated before,
\* reports a and not b.
C5_PendingSuppressesUnvalidated ==
    ParsedIntent =>
        /\ \A n \in parsed.error : ValidatedAfter(n)
        /\ (/\ parsed.kind = "validate"
            /\ parsed.payload = NameA
            /\ parsed.names = {NameA, NameB}
            /\ ~IsTrue(parsed.before, NameB))
           => parsed.error = {NameA}

C5_Witness ==
    /\ ParsedIntent
    /\ parsed.kind = "validate"
    /\ parsed.payload = NameA
    /\ parsed.names = {NameA, NameB}
    /\ ~IsTrue(parsed.before, NameB)
    /\ parsed.error = {NameA}

\* C6: after a submission without an intent marker every submitted field
\* name and every name the schema rejects is validated, whatever its flag
\* was before.
C6_PlainSubmitValidatesAll ==
    (parsed.thrown = "none" /\ parsed.marker.t = "null") =>
        \A n \in parsed.fields \cup parsed.names : ValidatedAfter(n)

ParsedList ==
    /\ parsed.thrown = "none"
    /\ parsed.kind = "list"
    /\ parsed.payload.name = NameTasks

\* the key array K of the list before the operation
KeysBefore ==
    IF parsed.stored.t = "array" THEN parsed.stored.v
    ELSE IF parsed.listBefore.t = "array" THEN ObjectKeys(parsed.listBefore.v)
    ELSE <<>>

KeysAfter == formState.key[NameTasks]

Without(keys, i) == SubSeq(keys, 1, i) \o SubSeq(keys, i + 2, Len(keys))

Inserted(keys, i, key) == SubSeq(keys, 1, i) \o <<key>> \o SubSeq(keys, i + 1, Len(keys))

InRange(index) ==
    index.t = "number" /\ index.v >= 0 /\ index.v < Len(KeysBefore)

\* C7: a remove at index i yields K with element i deleted and a reorder
\* (from, to) yields K with the element at from moved to position to, also
\* when no keys were stored and K is the index-derived key array of the list
\* before the operation.
C7_RemoveReorderKeepKeys ==
    ParsedList =>
        /\ (parsed.payload.operation = "remove" /\ InRange(parsed.payload.index))
           => KeysAfter = Without(KeysBefore, parsed.payload.index.v)
        /\ (/\ parsed.payload.operation = "reorder"
            /\ InRange(parsed.payload.from)
            /\ InRange(parsed.payload.to))
           => KeysAfter = Inserted(Without(KeysBefore, parsed.payload.from.v),
                                   parsed.payload.to.v,
                                   KeysBefore[parsed.payload.from.v + 1])

\* the position of the new slot of an insert
Slot ==
    IF parsed.payload.operation = "prepend" THEN 1
    ELSE IF parsed.payload.operation = "append" THEN Len(KeysBefore) + 1
    ELSE parsed.payload.index.v + 1

\* C8: the key placed in the new slot of an append, prepend or replace is
\* none of the keys of the array before the operation, the other keys keep
\* their order, and an append yields k + 1 keys with the new key last.
C8_InsertUsesNewKey ==
    (/\ ParsedList
     /\ IsInsert(parsed.payload)
     /\ parsed.payload.operation = "replace" => InRange(parsed.payload.index))
    =>  /\ Slot <= Len(KeysAfter)
        /\ KeysAfter[Slot] \notin Range(KeysBefore)
        /\ Without(KeysAfter, Slot - 1)
            = (IF parsed.payload.operation = "replace"
               THEN Without(KeysBefore, Slot - 1) ELSE KeysBefore)
        /\ parsed.payload.operation = "append"
            => Len(KeysAfter) = Len(KeysBefore) + 1

\* C9: after a list intent the key array stored for the name has the length
\* of the value array at the name in the resolved data.
C9_KeysAlignedWithItems ==
    ParsedList => Len(KeysAfter) = Len(parsed.listAfter.v)

\* the registered intents whose deserialize returns a payload
Claimants ==
    {i \in DOMAIN parsed.intents :
        deserialize(parsed.intents[i], parsed.marker.v).t
            \in {"string", "payload"}}

\* C10: with a non-empty marker getIntentHandler returns the handler of the
\* first registered intent whose deserialize returns a non-null payload and
\* throws 'Unknown intent' exactly when no registered intent claims the
\* marker; what the built-in validate or list serialize is claimed by
\* exactly one of the two.
C10_DispatchFirstClaimant ==
    (/\ parsed.intents # <<>>
     /\ parsed.marker.t = "string"
     /\ parsed.marker.v # <<>>) =>
        /\ (parsed.thrown = "Unknown intent") <=> (Claimants = {})
        /\ (Claimants # {} /\ parsed.thrown = "none")
            => parsed.kind
                = parsed.intents[CHOOSE i \in Claimants :
                                    \A j \in Claimants : i <= j].id
        /\ parsed.marker.v \in BuiltIn
            => Cardinality({i \in {validate, list} :
                    deserialize(i, parsed.marker.v).t
                        \in {"string", "payload"}}) = 1

\* =====================================================================
\* Properties of the life of a form
\* =====================================================================

\* the errors of a misconfigured form (intent.ts:179, intent.ts:267)
ConfigurationErrors ==
    {"Unknown intent", "The list intent can only be applied to a list"}

WellAddressed(obs) ==
    obs.input.doc = "mounted" /\ obs.input.event.target = "form"

\* C11: when the validator run by submit() raises a configuration error (a
\* marker no registered intent claims, a list intent on a path that holds
\* no array), submit() throws it to its caller.
C11_ConfigurationErrorReachesCaller ==
    [][(/\ last'.op = "submit"
        /\ WellAddressed(last')
        /\ last'.input.arg.kind = "parses"
        /\ onValidate(last'.input.arg, store).kind = "throws"
        /\ onValidate(last'.input.arg, store).error \in ConfigurationErrors)
       => last'.obs.threw]_vars

FormOperations ==
    {"getForm", "subscribe", "unsubscribe", "submit", "update",
     "handleEvent", "reset"}

\* C12: getForm, subscribe and the handle's submit, update, handleEvent and
\* reset throw when the form id is not in the store.
C12_UnknownFormIdThrows ==
    [][(last'.op \in FormOperations /\ FormId \notin DOMAIN store)
       => last'.obs.threw]_vars

\* C13: a submit or reset event whose target is not the form's live element
\* makes the handle throw.
C13_MismatchedTargetThrows ==
    [][(/\ last'.op \in {"submit", "reset"}
        /\ last'.input.doc = "mounted"
        /\ last'.input.event.target # "form")
       => last'.obs.threw]_vars

\* C17: submit() given a validator returning a Promise of a Submission
\* prevents the default and updates the store as submit() given a validator
\* returning that Submission.
C17_PromiseAsSynchronous ==
    [][(/\ last'.op = "submit"
        /\ WellAddressed(last')
        /\ last'.input.arg.kind = "promise")
       => LET sync == handle_submit(store, validity, "mounted", SubmitEvent,
                         [kind |-> "returns",
                          submission |-> last'.input.arg.submission])
          IN  /\ last'.obs.prevented = sync.obs.prevented
              /\ store' = sync.store]_vars

\* the pass whose result the last call applied
Settled(obs) == obs.op = "settle"

Differs(st, result) ==
    result.payload.t # "null" /\ Len(diff(st[FormId], result)) > 0

\* C16 as stated: once the results of overlapping passes have been passed to
\* update(), the store holds the error, validated flags and list keys of
\* the result passed last.
C16_LastAppliedIsStored ==
    [][(Settled(last') /\ inflight.applied > 0) =>
        /\ store'[FormId].error = last'.input.result.error
        /\ store'[FormId].state = last'.input.result.state]_vars

\* C16: no generation guard is applied: the result of a pass is passed to
\* update() whatever was issued or applied since the pass was issued, and
\* when update() finds at least one Update record against the store the
\* stored error, validated flags and list keys are those of that result,
\* also when the pass was issued before the one applied previously; when it
\* finds none the store keeps what it held.
C16_LastAppliedWinsWhenItDiffers ==
    [][Settled(last') =>
        /\ last'.obs.updateArg = <<last'.input.result>>
        /\ Differs(store, last'.input.result)
            => /\ last'.obs.wrote
               /\ store'[FormId].error = last'.input.result.error
               /\ store'[FormId].state = last'.input.result.state
        /\ ~Differs(store, last'.input.result) => store' = store]_vars

C16_Witness ==
    /\ Settled(last)
    /\ last.input.seq < inflight.applied
    /\ last.dirty
    /\ last.obs.wrote
    /\ store[FormId].error = last.input.result.error
    /\ store[FormId].state = last.input.result.state

\* =====================================================================
\* Properties of the report and of the validated flags of a list
\* =====================================================================

\* C18: report({ resetForm: true }) returns a null value payload, an empty
\* error map, an empty validated map and an empty list-key map, for a
\* pending, a rejected and an accepted submission and whatever error and
\* state the submission holds; without resetForm it returns the result of
\* the submission.
C18_ResetFormClearsEverything ==
    lastReport.called =>
        /\ lastReport.status \in {"pending", "rejected", "accepted"}
        /\ ResetForm(lastReport.options) =>
              /\ lastReport.result.value.t = "null"
              /\ lastReport.result.error = EmptyMap
              /\ lastReport.result.state.validated = EmptyMap
              /\ lastReport.result.state.key = EmptyMap
        /\ ~ResetForm(lastReport.options) =>
              lastReport.result = lastReport.computed

C18_Witness ==
    /\ lastReport.called
    /\ ResetForm(lastReport.options)
    /\ lastReport.status = "rejected"
    /\ lastReport.computed.error # EmptyMap
    /\ lastReport.computed.state.validated # EmptyMap
    /\ lastReport.computed.state.key # EmptyMap
    /\ lastReport.result = Cleared

\* a remove or replace of an item the list holds
ParsedAt(operation) ==
    /\ ParsedList
    /\ parsed.payload.operation = operation
    /\ parsed.listBefore.t = "array"
    /\ parsed.payload.index.t = "number"
    /\ parsed.payload.index.v \in 0 .. (Len(parsed.listBefore.v) - 1)

Under(n, prefix) == startsWith(n, prefix)

StrictlyUnder(n, prefix) == startsWith(n, prefix) /\ n # prefix

\* C20: after a replace at index i no path strictly under name[i] is
\* validated; after a remove at index i a flag that was set under name[i]
\* is set after the operation only as the flag the item that followed had
\* at the same path; in both cases the name of the list is validated.
C20_FlagsUnderIndexCleared ==
    /\ ParsedAt("replace") =>
          /\ ValidatedAfter(NameTasks)
          /\ \A n \in DOMAIN formState.validated :
                StrictlyUnder(n, Item(parsed.payload.index.v))
                    => ~ValidatedAfter(n)
    /\ ParsedAt("remove") =>
          /\ ValidatedAfter(NameTasks)
          /\ \A n \in DOMAIN parsed.before :
                (/\ Under(n, Item(parsed.payload.index.v))
                 /\ IsTrue(parsed.before, n)
                 /\ ValidatedAfter(n))
                => IsTrue(parsed.before,
                          Item(parsed.payload.index.v + 1)
                            \o slice(n, Len(Item(parsed.payload.index.v))))

C20_Witness ==
    /\ ParsedAt("replace")
    /\ parsed.payload.index.v = 0
    /\ IsTrue(parsed.before, Nested(0))
    /\ IsTrue(parsed.before, Item(0))
    /\ IsTrue(parsed.before, Item(1))
    /\ ~ValidatedAfter(Nested(0))
    /\ ValidatedAfter(NameTasks)

C20_WitnessRemove ==
    /\ ParsedAt("remove")
    /\ parsed.payload.index.v = 0
    /\ IsTrue(parsed.before, Nested(0))
    /\ ~ValidatedAfter(Nested(0))

\* =====================================================================
\* Properties of the validate intent
\* =====================================================================

\* the names a validate button may carry: a field, the form itself
ValidateNames == {NameA, <<>>}

\* a parse of the marker validate.serialize(n) by getIntentHandler
ValidateDispatched(n) ==
    /\ impl = "handler"
    /\ parsed'.marker = Marker(serialize(validate, n))

\* C21: for every field name n, the empty form-level name included, the
\* marker validate.serialize(n) is dispatched to a handler that sets
\* validated[n] to true and changes no other validated flag and no list
\* key.
C21_ValidateMarksName ==
    [][\A n \in ValidateNames :
          ValidateDispatched(n) =>
             /\ parsed'.thrown = "none"
             /\ parsed'.kind = "validate"
             /\ formState'.validated = Put(formState.validated, n, T)
             /\ formState'.key = formState.key]_vars

\* =====================================================================
\* Properties of what update() shows and focuses
\* =====================================================================

\* a message carrying one of the reserved prefixes
Sentinel(message) ==
    startsWith(message, skippedPrefix) \/ startsWith(message, undefinedPrefix)

\* a text holding a reserved prefix
Carries(text) ==
    \E i \in DOMAIN text : <<text[i]>> \in {skippedPrefix, undefinedPrefix}

\* C22: an update() never stores a message carrying the prefix
\* '[VALIDATION_SKIPPED] ' or '[VALIDATION_UNDEFINED] ' in the error map of
\* the form and never passes one to setCustomValidity.
C22_NoSentinelVisible ==
    (last.op = "update" /\ last.obs.wrote) =>
        /\ \A n \in DOMAIN store[FormId].error :
              \A i \in DOMAIN store[FormId].error[n] :
                 ~Sentinel(store[FormId].error[n][i])
        /\ \A i \in DOMAIN last.obs.updates :
              (/\ last.obs.updates[i].type = "error"
               /\ last.obs.updates[i].name \in Elements)
                 => ~Carries(join(last.obs.updates[i].next, ", "))

\* the result of a failed submission: it reports a message for some name
Failed(result) ==
    /\ result.payload.t # "null"
    /\ \E n \in DOMAIN result.error : result.error[n] # <<>>

\* C23: an update() with the result of a failed submission moves the focus
\* to the first invalid control when update.focusField is absent or true,
\* also when the result repeats what the store already holds, and never
\* moves it when focusField is false.
C23_FocusOnFailure ==
    (last.op = "update" /\ Failed(last.input)) =>
        (last.obs.focus
            <=> last.input.update.focusField \in {"absent", "true"})

\* =====================================================================
\* Properties of reset and of handleEvent
\* =====================================================================

\* C24: a genuine reset event calls the callback of every subscription of
\* the form exactly once, in the order of the list and whatever its
\* shouldNotify accepts, and leaves the list of subscriptions as it was.
C24_ResetNotifiesAll ==
    IsGenuineReset(last) =>
        /\ \A i \in DOMAIN last.subscribers :
              Count(last.obs.calls, last.subscribers[i].id) = 1
        /\ Len(last.obs.calls) = Len(last.subscribers)
        /\ store[FormId].subscribers = last.subscribers

C24_Witness ==
    /\ IsGenuineReset(last)
    /\ Len(last.subscribers) = 2
    /\ \E i \in DOMAIN last.subscribers :
          last.subscribers[i].shouldNotify # AcceptAll
    /\ ~last.dirty
    /\ Len(last.obs.calls) = 2

\* C25: reset(event) with an event whose type is not 'reset', whose target
\* is not the element of this form, or that is default-prevented leaves
\* the store entry as it was and calls no subscriber.
C25_ForeignResetIgnored ==
    [][(/\ last'.op = "reset"
        /\ last'.input.event # GenuineReset)
          => /\ store' = store
             /\ validity' = validity
             /\ last'.obs.calls = <<>>
             /\ ~last'.obs.wrote]_vars

C25_Witness ==
    /\ last.op = "reset"
    /\ last.input.event.type = "reset"
    /\ last.input.event.target = "other"
    /\ last.dirty
    /\ Len(last.subscribers) = 2
    /\ last.obs.calls = <<>>
    /\ Dirty(store[FormId])

\* the events handleEvent acts on
OwnNamedField(event) ==
    /\ event.target.kind = "field"
    /\ event.target.form = "form"
    /\ event.target.name # <<>>
    /\ ~event.defaultPrevented

\* C26: handleEvent never changes the store; it calls the handler only for
\* an event that is not default-prevented and whose target is a named field
\* of the live element of this form, and passes validated equal to the flag
\* stored for the name of the field, false when none is stored.
C26_HandleEventReadsOnly ==
    [][last'.op = "handleEvent" =>
        /\ store' = store
        /\ validity' = validity
        /\ last'.obs.handlerArg # <<>> =>
              /\ OwnNamedField(last'.input.event)
              /\ last'.input.doc = "mounted"
              /\ last'.obs.handlerArg[1].validated
                    = (IF IsTrue(store[FormId].state.validated,
                                 last'.input.event.target.name)
                       THEN T ELSE F)
        /\ (/\ OwnNamedField(last'.input.event)
            /\ ~last'.obs.threw) => last'.obs.handlerArg # <<>>]_vars

C26_Witness ==
    /\ last.op = "handleEvent"
    /\ last.obs.handlerArg # <<>>
    /\ last.obs.handlerArg[1].validated = T
    /\ last.input.event.target.name = NameB
    /\ ~IsTrue(store[FormId].state.validated, NameA)

C26_WitnessNotHandled ==
    /\ last.op = "handleEvent"
    /\ last.input.event.target.form = "foreign"
    /\ ~last.obs.threw
    /\ last.obs.handlerArg = <<>>

\* =====================================================================
\* Properties of the list intent in parse
\* =====================================================================

\* the items of the list before the operation
ItemsBefore ==
    IF parsed.listBefore.t = "array" THEN parsed.listBefore.v ELSE <<>>

\* the number of keys generated before the parse
GeneratedBefore ==
    IF IsInsert(parsed.payload) THEN generated - 1 ELSE generated

\* C27: for a list intent handled by preprocess, the list the validator is
\* given and the submission reports is the list after the operation, and
\* when no keys are stored the key array is the operation applied to the
\* index keys of the list as it was before the operation.
C27_MutationBeforeValidation ==
    (ParsedList /\ impl = "handler") =>
        /\ parsed.listAfter = Arr(updateList(ItemsBefore, parsed.payload))
        /\ parsed.stored.t # "array"
            => KeysAfter = updateKeys(ObjectKeys(ItemsBefore), parsed.payload,
                                      GeneratedBefore)

C27_Witness ==
    /\ ParsedList
    /\ impl = "handler"
    /\ parsed.stored.t # "array"
    /\ parsed.payload.operation = "remove"
    /\ parsed.payload.index = Num(0)
    /\ Len(ItemsBefore) = 2
    /\ Len(parsed.listAfter.v) = 1
    /\ KeysAfter = <<<<"1">>>>

\* a key made for a new slot, not the index of an item
IsGeneratedKey(key) == \E n \in 0 .. MaxGenerated : key = GeneratedKey(n)

\* the append of 'x' to a list that is empty and has no keys stored
AppendedToEmpty ==
    /\ ParsedList
    /\ parsed.payload = AppendTo(NameTasks, Str(<<"x">>))
    /\ ItemsBefore = <<>>
    /\ parsed.stored.t # "array"

\* C28: the list intent { name, operation: 'append', defaultValue: 'x' } on
\* a form whose list is empty and has no stored keys yields a value with
\* 'x' as the first item of the list, a key array of length 1 holding a
\* newly generated key, not an index, and the flag of the list validated.
C28_AppendToEmptyList ==
    AppendedToEmpty =>
        /\ parsed.listAfter = Arr(<<Str(<<"x">>)>>)
        /\ Len(KeysAfter) = 1
        /\ IsGeneratedKey(KeysAfter[1])
        /\ ValidatedAfter(NameTasks)

\* =====================================================================
\* Properties of names and of flatten
\* =====================================================================

\* C29: for every name built from non-empty segments separated by '.' and
\* integer indices '[n]', formatPaths(getPaths(name)) is the name; the empty
\* name has no path and is formatted back to the empty name.
C29_PathRoundTrip ==
    computed.fn = "formatPaths" =>
        /\ computed.output = computed.input
        /\ computed.input = <<>> <=> computed.paths = <<>>

C29_Witness ==
    /\ computed.fn = "formatPaths"
    /\ computed.input = <<"a", "[", "1", "0", "]", ".", "t", "a">>
    /\ computed.paths = <<Key(NameA), Index(10), Key(<<"t", "a">>)>>
    /\ computed.output = computed.input

IsFlat(data) ==
    /\ data.t = "object"
    /\ \A k \in DOMAIN data.v : data.v[k].t \notin {"object", "array"}

\* C30: flattening a flat map (every value a scalar) with the default
\* options returns exactly the keys and the values of the map: no entry
\* is added, none under the empty root name in particular, dropped or
\* changed
C30_FlattenOfFlatMap ==
    (computed.fn = "flatten" /\ IsFlat(computed.input))
        => computed.output = computed.input.v

\* the same of the older flatten alone (util.ts)
FlattenOfFlatMap_util ==
    (computed.fn = "flatten" /\ computed.version = "util"
        /\ IsFlat(computed.input))
        => computed.output = computed.input.v

\* what the flatten of formdata.ts returns for a flat map: the entries of
\* the map, and one more under the empty name unless the map has that key
FlattenOfFlatMap_formdata ==
    (computed.fn = "flatten" /\ computed.version = "formdata"
        /\ IsFlat(computed.input))
        => /\ DOMAIN computed.output = DOMAIN computed.input.v \cup {<<>>}
           /\ \A k \in DOMAIN computed.input.v :
                  computed.output[k] = computed.input.v[k]
           /\ <<>> \notin DOMAIN computed.input.v
                  => computed.output[<<>>] = cleanup(computed.input)

\* =====================================================================
\* Properties of resolve
\* =====================================================================

\* the values a payload submits under a name, in submission order
ValuesOf(entries, name) ==
    LET own == SelectSeq(entries, LAMBDA e : e.name = name)
    IN  [i \in DOMAIN own |-> own[i].value]

Stores(data, name, values) ==
    LET stored == previous(data, name)
    IN  stored.t = "array" /\ stored.v = values

\* C31: a name that occurs k >= 2 times in a payload is resolved to the
\* array of all k submitted values in submission order, whatever the
\* values are, empty strings included
C31_RepeatedNameGivesArray ==
    computed.fn = "resolve"
        => \A name \in EntryNames :
               Len(ValuesOf(computed.input, name)) >= 2
                   => Stores(computed.output, name,
                             ValuesOf(computed.input, name))

\* the same for the names whose first submitted value is not empty
RepeatedNameGivesArray_firstNotEmpty ==
    computed.fn = "resolve"
        => \A name \in EntryNames :
               (/\ Len(ValuesOf(computed.input, name)) >= 2
                /\ ValuesOf(computed.input, name)[1].v # <<>>)
                   => Stores(computed.output, name,
                             ValuesOf(computed.input, name))

\* =====================================================================
\* Properties of the texts of the intents
\* =====================================================================

\* what deserialize returns for a payload read back
ReadBack(intent, payload) ==
    IF intent.json THEN [v |-> payload, t |-> "payload"] ELSE Str(payload)

\* the type before the first '/' of a text, <<>> when there is no '/'
TypeOf(text) == SubSeq(text, 1, indexOf(text, "/"))

\* C32: for the built-in intents serialize gives '<type>/<payload>' and
\* deserialize gives back the payload serialized, for any field name of
\* validate and any list payload of list; a text without a '/', or with
\* another type before its first '/', is answered null and nothing is
\* thrown
C32_IntentTextRoundTrip ==
    /\ computed.fn = "serialize"
         => /\ Len(computed.text) >= 2
            /\ computed.text[1] = computed.intent.type
            /\ computed.text[2] = "/"
            /\ ~computed.intent.json
                 => slice(computed.text, 2) = computed.input
            /\ computed.output.t = ReadBack(computed.intent, computed.input).t
            /\ computed.output.v = computed.input
    /\ (/\ computed.fn = "deserialize"
        /\ \/ indexOf(computed.input, "/") = -1
           \/ TypeOf(computed.input) # <<computed.intent.type>>)
         => computed.output = NoIntent

C32_Witness ==
    /\ computed.fn = "serialize"
    /\ computed.intent = list
    /\ computed.input = Replace(NameTasks, 1, Str(<<"x">>))
    /\ computed.output.t = "payload"

C32_WitnessName ==
    /\ computed.fn = "serialize"
    /\ computed.intent = validate
    /\ computed.input = <<"a", "/", "b">>
    /\ computed.text = <<"validate", "/", "a", "/", "b">>

C32_WitnessForeign ==
    /\ computed.fn = "deserialize"
    /\ computed.intent = list
    /\ computed.input = <<"validate", "/", "a">>
    /\ computed.output = NoIntent

\* =====================================================================
\* Properties of the diff of update()
\* =====================================================================

FlagOf(validated, name) ==
    IF name \in DOMAIN validated THEN Boolean(validated[name]) ELSE F

\* the stored maps say what the maps of the result say: the same messages,
\* the same flags (an absent flag being a false one) and the same keys
\* under every name
SameMaps(form, result) ==
    \A name \in Names :
        /\ ErrorOf(form.error, name) = ErrorOf(result.error, name)
        /\ FlagOf(form.state.validated, name)
               = FlagOf(result.state.validated, name)
        /\ ListOf(form.state.list, name) = ListOf(result.state.list, name)

\* C33: update() detects every difference between the stored and the
\* incoming error, validated and list maps, a flag or a key array that is
\* stored but absent from the result included: after update(result) with
\* a payload the stored error and state are those of the result
C33_UpdateDetectsEveryDifference ==
    (last.op = "update" /\ last.input.payload.t # "null")
        => SameMaps(store[FormId], last.input)

\* what update() does ensure: a result that leaves no Update record
\* leaves the store as it was, any other is stored as it is
UpdateStoresWhenDiffFound ==
    (last.op = "update" /\ last.input.payload.t # "null")
        => IF last.obs.updates = <<>>
           THEN ~last.obs.wrote
           ELSE /\ store[FormId].error = last.input.error
                /\ store[FormId].state = last.input.state

\* =====================================================================
\* Properties of getIntent
\* =====================================================================

\* the entries are one and the same value
SameEntry(a, b) == a.t = b.t /\ (a.t = "string" => a.v = b.v)

\* C34: getIntent returns null when the payload has no intent entry and
\* the value when there is one entry or two identical entries; it throws
\* when two entries differ, when there are more than two entries, or when
\* the first entry is not a string
C34_GetIntentCases ==
    computed.fn = "getIntent"
        => LET all == computed.input
           IN  IF all = <<>> THEN computed.output = Ok(NoIntent)
               ELSE IF \/ all[1].t # "string"
                       \/ Len(all) > 2
                       \/ (Len(all) = 2 /\ ~SameEntry(all[1], all[2]))
               THEN computed.output.t = "throw"
               ELSE computed.output.t = "ok"
                        /\ SameEntry(computed.output.v, all[1])

\* the same, two entries being let through also when the second is the
\* empty string
GetIntentCases_secondEmpty ==
    computed.fn = "getIntent"
        => LET all == computed.input
           IN  IF all = <<>> THEN computed.output = Ok(NoIntent)
               ELSE IF \/ all[1].t # "string"
                       \/ Len(all) > 2
                       \/ (Len(all) = 2 /\ ~SameEntry(all[1], all[2])
                             /\ ~SameEntry(all[2], Str(<<>>)))
               THEN computed.output.t = "throw"
               ELSE computed.output.t = "ok"
                        /\ SameEntry(computed.output.v, all[1])

\* =====================================================================
\* Properties of disposers called during a pass
\* =====================================================================

\* C35: once the disposer of a subscription has returned its callback is
\* never invoked again, also when the disposer is called by the callback
\* of another subscriber in the middle of a pass of update() or reset()
\* that has not reached the subscription yet
C35_NoCallAfterDispose ==
    computed.fn = "pass" => computed.late = {}

\* a subscription disposed of during a pass is called by no later pass
DisposedIsGoneAfterPass ==
    computed.fn = "pass"
        => \A sub \in Range(store[FormId].subscribers) :
               sub.id \notin computed.disposed

\* =====================================================================
\* Properties of what a list intent leaves alone
\* =====================================================================

\* names that are not the list and not nested under it: another field, and
\* a sibling whose name only starts with the characters of the list's name
Outside == {NameA, NameTasksExtra}

FlagsKept(names) ==
    \A n \in names :
        FlagOf(formState.validated, n) = FlagOf(parsed.before, n)

DefaultsKept(names) ==
    \A n \in names \cap DOMAIN computed.input :
        n \in DOMAIN computed.output /\ computed.output[n] = computed.input[n]

ListIntentDone == parsed.kind = "list" /\ parsed.thrown = "none"

\* C36: a list intent on a list at index i changes validated flags and
\* stored default values only for the list and for the paths nested under
\* it: the flags of another index that shares a textual prefix (name[10]
\* when i = 1) and of a sibling whose name starts with the same characters
\* (tasksExtra beside tasks) are left as they were
C36_ListIntentFrame ==
    /\ ListIntentDone
         => /\ FlagsKept(Outside)
            /\ (parsed.payload.operation = "replace"
                  /\ parsed.payload.index = Num(1)) => FlagsKept({Item(10)})
    /\ computed.fn = "mergeInitialValue" => DefaultsKept(Outside)

\* the flags alone, for the parses that clear them in place
\* (conform-zod/parse.ts:232-243, part_014:228-239)
FlagsFrame_inPlace ==
    (ListIntentDone /\ impl # "handler")
        => /\ FlagsKept(Outside)
           /\ (parsed.payload.operation = "replace"
                 /\ parsed.payload.index = Num(1)) => FlagsKept({Item(10)})

\* the flags of another index and of another field, for every parse
FlagsFrame_otherIndex ==
    ListIntentDone
        => /\ FlagsKept({NameA})
           /\ (parsed.payload.operation = "replace"
                 /\ parsed.payload.index = Num(1)) => FlagsKept({Item(10)})

\* =====================================================================
\* Properties of the flags of list items
\* =====================================================================

\* the index an item at index j has after the operation, -1 when the item
\* is removed
NewIndex(payload, j) ==
    IF payload.operation = "prepend" THEN j + 1
    ELSE IF payload.operation = "remove"
    THEN (IF j = payload.index.v THEN -1
          ELSE IF j > payload.index.v THEN j - 1 ELSE j)
    ELSE IF payload.operation = "reorder"
    THEN (IF j = payload.from.v THEN payload.to.v
          ELSE IF payload.from.v < j /\ j <= payload.to.v THEN j - 1
          ELSE IF payload.to.v <= j /\ j < payload.from.v THEN j + 1
          ELSE j)
    ELSE j

ItemsOf(items) == IF items.t = "array" THEN 0 .. (Len(items.v) - 1) ELSE {}

Moves == {"prepend", "remove", "reorder"}

\* the flag at the item itself and at the field under it follows the item
FlagsFollow(before, after, payload, j) ==
    NewIndex(payload, j) >= 0
        => /\ FlagOf(before, Item(j)) = T
                => FlagOf(after, Item(NewIndex(payload, j))) = T
           /\ FlagOf(before, ItemField(j)) = T
                => FlagOf(after, ItemField(NewIndex(payload, j))) = T

\* a flag that is set afterwards belongs to an item that had it before
FlagsNotLeft(before, after, payload, m) ==
    /\ FlagOf(after, Item(m)) = T
         => \E j \in ItemsOf(parsed.listBefore) :
                NewIndex(payload, j) = m /\ FlagOf(before, Item(j)) = T
    /\ FlagOf(after, ItemField(m)) = T
         => \E j \in ItemsOf(parsed.listBefore) :
                NewIndex(payload, j) = m /\ FlagOf(before, ItemField(j)) = T

MoveDone == ListIntentDone /\ parsed.payload.operation \in Moves

FlagsStayWithItems ==
    /\ \A j \in ItemsOf(parsed.listBefore) :
           FlagsFollow(parsed.before, formState.validated, parsed.payload, j)
    /\ \A m \in ItemsOf(parsed.listAfter) :
           FlagsNotLeft(parsed.before, formState.validated, parsed.payload, m)

\* C37: after a prepend, remove or reorder the validated flags of every
\* surviving item stay with the item: a flag that was true at name[j].p is
\* true at name[j'].p, j' being the new index of the item, and is not left
\* at the old index for another item
C37_FlagsFollowItems == MoveDone => FlagsStayWithItems

\* updateState moves the flags with the items of a prepend and of a remove;
\* its list of flags is as long as the last flagged index, so a reorder to
\* an index past it leaves the flag where it was
FlagsFollowItems_handler ==
    (MoveDone /\ impl = "handler" /\ parsed.payload.operation # "reorder")
        => FlagsStayWithItems

\* =====================================================================
\* Properties of a submission that carries an intent
\* =====================================================================

ReadyOrAccepted == parsed.status \in {"accepted", "ready"}

\* C38: a submission whose payload carries an intent marker is never
\* accepted, never ready with a value, whatever the schema says: it is
\* pending, or rejected when the schema fails
C38_IntentNeverAccepted ==
    (parsed.thrown = "none" /\ parsed.marker.t = "string") => ~ReadyOrAccepted

\* the parse that calls the intents and returns a state (part_013) keeps
\* every submission with a marker pending
IntentNeverAccepted_handler ==
    (/\ parsed.thrown = "none"
     /\ parsed.marker.t = "string"
     /\ computed.fn = "submit"
     /\ computed.input = "state"
     /\ impl = "handler")
        => parsed.status = "pending"

\* the parses that resolve the intent in place accept only when the
\* marker is the empty text
IntentNeverAccepted_inPlace ==
    (/\ parsed.thrown = "none"
     /\ parsed.marker.t = "string"
     /\ parsed.marker.v # <<>>
     /\ impl \in {"zod", "update"})
        => ~ReadyOrAccepted

\* =====================================================================
\* Properties of the skipped messages in the diff of update()
\* =====================================================================

\* the messages are the stored ones, some of them written as skipped
SkippedOf(prev, messages) ==
    /\ Len(messages) = Len(prev)
    /\ \A i \in DOMAIN messages :
          messages[i] \in {prev[i], skippedPrefix \o prev[i]}
    /\ \E i \in DOMAIN messages : messages[i] = skippedPrefix \o prev[i]

ErrorUpdateFor(updates, name) ==
    \E i \in DOMAIN updates :
        updates[i].type = "error" /\ updates[i].name = name

SkippedStep(name) ==
    /\ FormId \in DOMAIN store
    /\ last'.op = "update"
    /\ SkippedOf(ErrorOf(store[FormId].error, name),
                 ErrorOf(last'.input.error, name))

\* C39: in the error diff of update() a message '[VALIDATION_SKIPPED] m'
\* for a name whose stored error contains m is taken as m: a result that
\* skips a check whose message still stands gives no error Update for the
\* name and leaves the custom validity of its element as it was
C39_SkippedMessageStands ==
    [][\A name \in Elements :
          SkippedStep(name)
              => /\ ~ErrorUpdateFor(last'.obs.updates, name)
                 /\ validity'[name] = validity[name]]_vars

\* the check of a is skipped while its message stands, and the flags of
\* the result make the store be written
C39_Witness ==
    /\ last.op = "update"
    /\ NameA \in DOMAIN last.input.error
    /\ last.input.error[NameA] = <<skippedPrefix \o M1>>
    /\ validity[NameA] = M1
    /\ last.obs.wrote
    /\ ~ErrorUpdateFor(last.obs.updates, NameA)

====
